---- MODULE Spec2Model ----
(***************************************************************************)
(* A model of logger.py, the chat-driven personal finance tracker.         *)
(*                                                                         *)
(* The state is the SQLite store (goals, savings, payments,                *)
(* payment_history, expenses, budgets, assets), the ConversationHandler    *)
(* state of every dialogue of every user, each user's context.user_data,   *)
(* the inline                                                              *)
(* buttons a user has been shown, and a record of what the last handler    *)
(* did and sent.  One action models one handler call; the library          *)
(* dispatches one update at a time (no concurrent_updates), so a handler   *)
(* is one atomic step.                                                     *)
(*                                                                         *)
(* Amounts are REAL in the store and float in the handlers; the model      *)
(* keeps them as integers, and compares percentages by cross               *)
(* multiplication, which is exact where the float comparison is exact.     *)
(***************************************************************************)
EXTENDS Integers, Sequences, FiniteSets, TLC

VARIABLES
    goals,            \* table goals: set of rows
    savings,          \* table savings: set of rows, goal_id references goals
    payments,         \* table payments
    payment_history,  \* table payment_history, payment_id references payments
    expenses,         \* table expenses
    budgets,          \* table budgets
    assets,           \* table assets
    seq,              \* sqlite_sequence: last AUTOINCREMENT id of each table
    conv,             \* conv[u][c]: state of ConversationHandler c for user u
    user_data,        \* user_data[u]: context.user_data of user u
    buttons,          \* buttons[u]: callback data of the buttons shown to u
    last,             \* the last handler call: who, which, on what, messages
    almost_count,     \* history: "almost there" alerts sent, per goal id
    items, page, prefix, keyboard   \* the paginated selector on its own

dbVars   == <<goals, savings, payments, payment_history, expenses, budgets,
              assets, seq>>
chatVars == <<conv, user_data, buttons>>
pageVars == <<items, page, prefix, keyboard>>
vars     == <<goals, savings, payments, payment_history, expenses, budgets,
              assets, seq,
              conv, user_data, buttons, last, almost_count,
              items, page, prefix, keyboard>>

-----------------------------------------------------------------------------
(* Program constants.                                                      *)

\* The two allowed users (5134940733 and 8074969502), renamed 1 and 2.
ALLOWED_USER_IDS == {1, 2}
ITEMS_PER_PAGE == 5
END == "END"

EXPENSE_CATEGORIES ==
    {"food", "transport", "shopping", "bills", "entertainment", "health",
     "education", "travel", "gifts", "other"}

(* Bounds of the model. *)
MaxGoals    == 2    \* goals rows ever inserted
MaxSavings  == 2    \* savings rows ever inserted
MaxPayments == 2    \* payments rows ever inserted
MaxHistory  == 2    \* payment_history rows ever inserted
MaxExpenses == 3    \* expenses rows ever inserted
MaxBudgets  == 2    \* budgets rows ever inserted
MaxItems    == 12   \* longest list handed to the paginated selector
MaxOpen     == 2    \* dialogues one user holds open at once
MaxPage     == 3    \* largest page index asked of the paginated selector
MaxAssets   == 3    \* assets rows ever inserted
MaxStamp    == 3    \* writes one assets row ever has
MaxList     == 6    \* goals, and assets, of user 1 where lists run over a page

-----------------------------------------------------------------------------
(* Message texts.  A text is a string; float(), str.upper() and            *)
(* str.lower() are given by what they do on the texts the model sends.     *)

NumberTexts == {"100", "95", "40", "5", "0", "-5", "-40", "250", "50", "1000"}

\* float(text) succeeds (no ValueError)
IsFloat(t) == t \in NumberTexts

float(t) ==
    CASE t = "100" -> 100
      [] t = "95"  -> 95
      [] t = "40"  -> 40
      [] t = "5"   -> 5
      [] t = "0"   -> 0
      [] t = "-5"  -> 0 - 5
      [] t = "-40" -> 0 - 40
      [] t = "250" -> 250
      [] t = "50"  -> 50
      [] t = "1000" -> 1000

upper(t) ==
    CASE t = "usd" -> "USD"
      [] t = "eur" -> "EUR"
      [] t = "a"   -> "A"
      [] t = "b"   -> "B"
      [] OTHER     -> t

lower(t) ==
    CASE t = "USD"  -> "usd"
      [] t = "Food" -> "food"
      [] t = "Cash" -> "cash"
      [] OTHER      -> t

\* filters.COMMAND: the text starts with a bot command
IsCommand(t) == t \in {"/cancel"}

-----------------------------------------------------------------------------
(* context.user_data: a dict from key to value.                            *)

EmptyDict == [k \in {} |-> 0]
Put(d, k, v) == [x \in (DOMAIN d) \cup {k} |-> IF x = k THEN v ELSE d[x]]
Has(d, k) == k \in DOMAIN d

-----------------------------------------------------------------------------
(* Updates.  A text message, or a click on an inline button whose          *)
(* callback data is "_".join(pre) + "_" + str(arg).                        *)

Text(t) == [kind |-> "text", text |-> t, pre |-> <<>>, arg |-> 0]
Click(pre, arg) == [kind |-> "cb", text |-> "", pre |-> pre, arg |-> arg]

\* re.match("^" + "_".join(pat) + "_", data)
PatternMatches(pat, upd) ==
    /\ upd.kind = "cb"
    /\ Len(pat) <= Len(upd.pre)
    /\ SubSeq(upd.pre, 1, Len(pat)) = pat

-----------------------------------------------------------------------------
(* Dispatch.  main() adds fifteen ConversationHandlers and then the plain  *)
(* handlers, all in one group: an update goes to the first handler, in     *)
(* that order, whose check_update accepts it.                              *)

Min(S) == CHOOSE x \in S : \A y \in S : x <= y

ConvOrder ==
    << "new_goal", "new_debt", "add", "delete", "progress", "reminder",
       "add_expense", "set_budget", "add_asset", "update_asset",
       "delete_asset", "new_payment", "add_payment", "payment_progress",
       "delete_payment" >>

Convs == {ConvOrder[i] : i \in 1..Len(ConvOrder)}

\* entry_points: the text the entry regex accepts, and the entry handler
EntryOf(c) ==
    CASE c = "new_goal"         -> [text |-> "new goal",         fn |-> "new_goal_start"]
      [] c = "new_debt"         -> [text |-> "new debt",         fn |-> "new_debt_start"]
      [] c = "add"              -> [text |-> "add",              fn |-> "add_start"]
      [] c = "delete"           -> [text |-> "delete",           fn |-> "delete_start"]
      [] c = "progress"         -> [text |-> "progress",         fn |-> "progress_start"]
      [] c = "reminder"         -> [text |-> "set reminder",     fn |-> "set_reminder_start"]
      [] c = "add_expense"      -> [text |-> "add expense",      fn |-> "add_expense_start"]
      [] c = "set_budget"       -> [text |-> "set budget",       fn |-> "set_budget_start"]
      [] c = "add_asset"        -> [text |-> "add asset",        fn |-> "add_asset_start"]
      [] c = "update_asset"     -> [text |-> "update asset",     fn |-> "update_asset_start"]
      [] c = "delete_asset"     -> [text |-> "delete asset",     fn |-> "delete_asset_start"]
      [] c = "new_payment"      -> [text |-> "new payment",      fn |-> "new_payment_start"]
      [] c = "add_payment"      -> [text |-> "add payment",      fn |-> "add_payment_start"]
      [] c = "payment_progress" -> [text |-> "payment progress", fn |-> "payment_progress_start"]
      [] c = "delete_payment"   -> [text |-> "delete payment",   fn |-> "delete_payment_start"]

\* states: MessageHandler(filters.TEXT & ~filters.COMMAND, fn)
TextStateFn(s) ==
    CASE s = "GOAL_NAME"           -> "get_goal_name"
      [] s = "GOAL_AMOUNT"         -> "get_goal_amount"
      [] s = "GOAL_CURRENCY"       -> "get_goal_currency_and_save"
      [] s = "DEBT_NAME"           -> "get_debt_name"
      [] s = "DEBT_AMOUNT"         -> "get_debt_amount"
      [] s = "DEBT_CURRENCY"       -> "get_debt_currency_and_save"
      [] s = "ADD_SAVINGS_AMOUNT"  -> "get_amount_and_save"
      [] s = "REMINDER_TIME"       -> "set_reminder_time"
      [] s = "EXPENSE_AMOUNT"      -> "get_expense_amount"
      [] s = "EXPENSE_CURRENCY"    -> "get_expense_currency"
      [] s = "EXPENSE_CATEGORY"    -> "get_expense_category"
      [] s = "EXPENSE_REASON"      -> "save_expense"
      [] s = "BUDGET_CATEGORY"     -> "get_budget_category"
      [] s = "BUDGET_AMOUNT"       -> "get_budget_amount"
      [] s = "BUDGET_CURRENCY"     -> "get_budget_currency"
      [] s = "BUDGET_PERIOD"       -> "save_budget"
      [] s = "ASSET_NAME"          -> "get_asset_name"
      [] s = "ASSET_AMOUNT"        -> "get_asset_amount"
      [] s = "ASSET_CURRENCY"      -> "get_asset_currency"
      [] s = "ASSET_TYPE"          -> "save_asset"
      [] s = "UPDATE_ASSET_AMOUNT" -> "process_asset_update"
      [] s = "PAYMENT_NAME"        -> "get_payment_name"
      [] s = "PAYMENT_RECIPIENT"   -> "get_payment_recipient"
      [] s = "PAYMENT_TARGET"      -> "get_payment_target"
      [] s = "PAYMENT_CURRENCY"    -> "get_payment_currency"
      [] s = "PAYMENT_AMOUNT"      -> "get_payment_amount"
      [] s = "PAYMENT_FREQUENCY"   -> "save_payment"
      [] s = "ADD_PAYMENT_AMOUNT"  -> "get_payment_amount_and_save"
      [] OTHER                     -> "none"

\* states that list MessageHandler(filters.Regex('^cancel$'), cancel) first
CancelRegexStates ==
    {"EXPENSE_AMOUNT", "EXPENSE_CURRENCY", "EXPENSE_CATEGORY", "EXPENSE_REASON",
     "BUDGET_CATEGORY", "BUDGET_AMOUNT", "BUDGET_CURRENCY", "BUDGET_PERIOD",
     "PAYMENT_NAME", "PAYMENT_RECIPIENT", "PAYMENT_TARGET", "PAYMENT_CURRENCY",
     "PAYMENT_AMOUNT", "PAYMENT_FREQUENCY", "ADD_PAYMENT_AMOUNT"}

\* states: the CallbackQueryHandlers, in order, as <<pattern, handler>>
CallbackHandlers(s) ==
    CASE s = "ADD_SAVINGS_GOAL" ->
            << << <<"nav", "add", "to">>, "navigate_menu" >>,
               << <<"add", "to">>, "select_goal_for_adding" >> >>
      [] s = "DELETE_GOAL_CONFIRM" ->
            << << <<"nav", "delete">>, "navigate_menu" >>,
               << <<"delete">>, "confirm_delete" >> >>
      [] s = "PROGRESS_GOAL_SELECT" ->
            << << <<"nav", "progress">>, "navigate_menu" >>,
               << <<"progress">>, "show_goal_progress" >> >>
      [] s = "UPDATE_ASSET_SELECT" ->
            << << <<"nav", "update", "asset">>, "navigate_asset_menu" >>,
               << <<"update", "asset">>, "select_asset_for_update" >> >>
      [] s = "DELETE_ASSET_SELECT" ->
            << << <<"nav", "delete", "asset">>, "navigate_delete_asset_menu" >>,
               << <<"delete", "asset">>, "confirm_asset_delete" >> >>
      [] s = "ADD_PAYMENT_SELECT" ->
            << << <<"add", "payment">>, "select_payment_for_adding" >> >>
      [] s = "PAYMENT_PROGRESS_SELECT" ->
            << << <<"payment", "progress">>, "show_payment_progress" >> >>
      [] s = "DELETE_PAYMENT_SELECT" ->
            << << <<"delete", "payment">>, "confirm_payment_delete" >> >>
      [] OTHER -> << >>

\* states: the keys of each conversation's states mapping
StatesOf(c) ==
    CASE c = "new_goal"         -> {"GOAL_NAME", "GOAL_AMOUNT", "GOAL_CURRENCY"}
      [] c = "new_debt"         -> {"DEBT_NAME", "DEBT_AMOUNT", "DEBT_CURRENCY"}
      [] c = "add"              -> {"ADD_SAVINGS_GOAL", "ADD_SAVINGS_AMOUNT"}
      [] c = "delete"           -> {"DELETE_GOAL_CONFIRM"}
      [] c = "progress"         -> {"PROGRESS_GOAL_SELECT"}
      [] c = "reminder"         -> {"REMINDER_TIME"}
      [] c = "add_expense"      -> {"EXPENSE_AMOUNT", "EXPENSE_CURRENCY",
                                    "EXPENSE_CATEGORY", "EXPENSE_REASON"}
      [] c = "set_budget"       -> {"BUDGET_CATEGORY", "BUDGET_AMOUNT",
                                    "BUDGET_CURRENCY", "BUDGET_PERIOD"}
      [] c = "add_asset"        -> {"ASSET_NAME", "ASSET_AMOUNT", "ASSET_CURRENCY",
                                    "ASSET_TYPE"}
      [] c = "update_asset"     -> {"UPDATE_ASSET_SELECT", "UPDATE_ASSET_AMOUNT"}
      [] c = "delete_asset"     -> {"DELETE_ASSET_SELECT"}
      [] c = "new_payment"      -> {"PAYMENT_NAME", "PAYMENT_RECIPIENT",
                                    "PAYMENT_TARGET", "PAYMENT_CURRENCY",
                                    "PAYMENT_AMOUNT", "PAYMENT_FREQUENCY"}
      [] c = "add_payment"      -> {"ADD_PAYMENT_SELECT", "ADD_PAYMENT_AMOUNT"}
      [] c = "payment_progress" -> {"PAYMENT_PROGRESS_SELECT"}
      [] c = "delete_payment"   -> {"DELETE_PAYMENT_SELECT"}

\* ConversationHandler.check_update for a conversation in state s: the
\* entry point when idle, else the state's handlers and then the fallback
\* CommandHandler("cancel", cancel); "none" when nothing accepts the update.
ConvHandler(c, s, upd) ==
    IF s = END
    THEN IF upd.kind = "text" /\ upd.text = EntryOf(c).text
         THEN EntryOf(c).fn ELSE "none"
    ELSE IF upd.kind = "text"
         THEN IF IsCommand(upd.text)
              THEN (IF upd.text = "/cancel" THEN "cancel" ELSE "none")
              ELSE IF s \in CancelRegexStates /\ upd.text = "cancel"
                   THEN "cancel"
                   ELSE TextStateFn(s)
         ELSE LET hs == CallbackHandlers(s)
                  ok == {i \in 1..Len(hs) : PatternMatches(hs[i][1], upd)}
              IN  IF ok = {} THEN "none" ELSE hs[Min(ok)][2]

\* The plain handlers added after the conversations (those that write).
TopHandler(upd) ==
    IF upd.kind # "text" THEN "none"
    ELSE IF upd.text = "expense report" THEN "expense_report"
    ELSE IF upd.text = "expense compare" THEN "expense_compare"
    ELSE IF upd.text = "erase all" THEN "erase_all"
    ELSE IF upd.text = "/cancel" THEN "cancel"
    ELSE "none"

\* The <<conversation, handler>> the application hands the update to.
Route(u, upd) ==
    LET ok == {i \in 1..Len(ConvOrder) :
                 ConvHandler(ConvOrder[i], conv[u][ConvOrder[i]], upd) # "none"}
    IN  IF ok = {}
        THEN <<"top", TopHandler(upd)>>
        ELSE <<ConvOrder[Min(ok)],
               ConvHandler(ConvOrder[Min(ok)], conv[u][ConvOrder[Min(ok)]], upd)>>

-----------------------------------------------------------------------------
(* The store.                                                              *)
(*   goals:   [id, user_id, name, target_amount, current_amount, currency, *)
(*             type, notified_90_percent]      name is UNIQUE              *)
(*   savings: [id, goal_id, amount]            goal_id REFERENCES goals    *)
(*                                             ON DELETE CASCADE           *)
(* PRAGMA foreign_keys = ON is set on every connection (db_connect).       *)

NoRow == [id |-> 0]

RECURSIVE SumAmounts(_)
SumAmounts(rows) ==
    IF rows = {} THEN 0
    ELSE LET r == CHOOSE x \in rows : TRUE
         IN  r.amount + SumAmounts(rows \ {r})

\* the rows in rowid order, as the list fetchall() returns
RECURSIVE SortById(_)
SortById(rows) ==
    IF rows = {} THEN << >>
    ELSE LET r == CHOOSE x \in rows : \A y \in rows : x.id <= y.id
         IN  <<r>> \o SortById(rows \ {r})

get_user_goals_and_debts(user_id) ==
    SortById({g \in goals : g.user_id = user_id})

\* SELECT ... WHERE id = ?, fetchone(): the row, or None (NoRow)
RowById(rows, id) ==
    IF \E r \in rows : r.id = id
    THEN CHOOSE r \in rows : r.id = id
    ELSE NoRow

get_goal_by_id(goal_id) == RowById(goals, goal_id)

\* INSERT INTO goals raises sqlite3.IntegrityError: name TEXT NOT NULL UNIQUE
GoalInsertFails(name) == \E g \in goals : g.name = name

InsertGoal(user_id, name, target_amount, currency, type) ==
    goals \cup {[id |-> seq.goals + 1, user_id |-> user_id, name |-> name,
                 target_amount |-> target_amount, current_amount |-> 0,
                 currency |-> currency, type |-> type,
                 notified_90_percent |-> 0]}

\* a connection without PRAGMA foreign_keys = ON: the INSERT never fails
SavingsInsertUnchecked(goal_id) == FALSE

\* INSERT INTO savings raises sqlite3.IntegrityError (FOREIGN KEY constraint
\* failed) when the goal is gone
SavingsInsertFails(goal_id) == ~ \E g \in goals : g.id = goal_id

InsertSaving(goal_id, amount) ==
    savings \cup {[id |-> seq.savings + 1, goal_id |-> goal_id, amount |-> amount]}

\* a store that loses the UPDATE of current_amount
AddToCurrentAmountLost(rows, goal_id, amount) == rows

\* UPDATE goals SET current_amount = current_amount + ? WHERE id = ?
AddToCurrentAmount(rows, goal_id, amount) ==
    {IF g.id = goal_id
     THEN [g EXCEPT !.current_amount = g.current_amount + amount]
     ELSE g : g \in rows}

\* a store that loses the UPDATE of notified_90_percent
SetNotifiedLost(rows, goal_id) == rows

\* UPDATE goals SET notified_90_percent = 1 WHERE id = ?
SetNotified(rows, goal_id) ==
    {IF g.id = goal_id THEN [g EXCEPT !.notified_90_percent = 1] ELSE g : g \in rows}

\* a store without ON DELETE CASCADE on savings.goal_id
CascadeSavingsOff(goal_id) == savings

\* delete_goal_from_db: DELETE FROM goals WHERE id = ?, cascading to savings
DeleteGoalRows(goal_id) == {g \in goals : g.id # goal_id}
CascadeSavings(goal_id) == {s \in savings : s.goal_id # goal_id}

\* progress_percent = (current / target) * 100 if target > 0 else 0, compared
\* with a threshold: progress_percent >= pct
ProgressAtLeast(current, target, pct) ==
    IF target > 0 THEN current * 100 >= pct * target ELSE 0 >= pct

-----------------------------------------------------------------------------
(* The paginated keyboards.                                                *)

\* a slice whose end 0 after a negative start means the end of the list
PySliceWrapping(s, a, b) ==
    LET n  == Len(s)
        lo == IF a < 0 THEN (IF n + a < 0 THEN 0 ELSE n + a)
                       ELSE (IF a > n THEN n ELSE a)
        hi == IF b < 0 THEN (IF n + b < 0 THEN 0 ELSE n + b)
                       ELSE (IF b > n \/ (a < 0 /\ b = 0) THEN n ELSE b)
    IN  IF lo < hi THEN SubSeq(s, lo + 1, hi) ELSE << >>

\* Python's s[a:b]
PySlice(s, a, b) ==
    LET n  == Len(s)
        lo == IF a < 0 THEN (IF n + a < 0 THEN 0 ELSE n + a)
                       ELSE (IF a > n THEN n ELSE a)
        hi == IF b < 0 THEN (IF n + b < 0 THEN 0 ELSE n + b)
                       ELSE (IF b > n THEN n ELSE b)
    IN  IF lo < hi THEN SubSeq(s, lo + 1, hi) ELSE << >>

Button(pre, arg) == [pre |-> pre, arg |-> arg]

\* a keyboard whose Next test counts the last shown item as still to come
generate_paginated_keyboard_next_off_by_one(list, pre, pg) ==
    LET start_index == pg * ITEMS_PER_PAGE
        end_index   == start_index + ITEMS_PER_PAGE
        shown       == PySlice(list, start_index, end_index)
        rows        == [i \in 1..Len(shown) |-> <<Button(pre, shown[i].id)>>]
        prev        == IF pg > 0
                       THEN <<Button(<<"nav">> \o pre, pg - 1)>> ELSE << >>
        next        == IF end_index <= Len(list)
                       THEN <<Button(<<"nav">> \o pre, pg + 1)>> ELSE << >>
        nav_row     == prev \o next
    IN  IF nav_row # << >> THEN rows \o <<nav_row>> ELSE rows

\* generate_paginated_keyboard: one row per item of the page, then the
\* navigation row when it is not empty.  A button is its callback data,
\* f"{prefix}_{item_id}" or f"nav_{prefix}_{page}".
generate_paginated_keyboard(list, pre, pg) ==
    LET start_index == pg * ITEMS_PER_PAGE
        end_index   == start_index + ITEMS_PER_PAGE
        shown       == PySlice(list, start_index, end_index)
        rows        == [i \in 1..Len(shown) |-> <<Button(pre, shown[i].id)>>]
        prev        == IF pg > 0
                       THEN <<Button(<<"nav">> \o pre, pg - 1)>> ELSE << >>
        next        == IF end_index < Len(list)
                       THEN <<Button(<<"nav">> \o pre, pg + 1)>> ELSE << >>
        nav_row     == prev \o next
    IN  IF nav_row # << >> THEN rows \o <<nav_row>> ELSE rows

\* generate_payment_keyboard: the same paging over the payments list
generate_payment_keyboard(list, pre, pg) ==
    LET start_index == pg * ITEMS_PER_PAGE
        end_index   == start_index + ITEMS_PER_PAGE
        shown       == PySlice(list, start_index, end_index)
        rows        == [i \in 1..Len(shown) |-> <<Button(pre, shown[i].id)>>]
        prev        == IF pg > 0
                       THEN <<Button(<<"nav">> \o pre, pg - 1)>> ELSE << >>
        next        == IF end_index < Len(list)
                       THEN <<Button(<<"nav">> \o pre, pg + 1)>> ELSE << >>
        nav_row     == prev \o next
    IN  IF nav_row # << >> THEN rows \o <<nav_row>> ELSE rows

\* every button of a keyboard
ButtonsOf(kb) == UNION {{kb[i][j] : j \in 1..Len(kb[i])} : i \in 1..Len(kb)}

-----------------------------------------------------------------------------
(* What a handler call leaves behind for the properties to read: the user, *)
(* the handler, the row id it worked on (0: none) and the messages sent.   *)

Said(u, fn, id, msgs) == [user |-> u, fn |-> fn, id |-> id, msgs |-> msgs]

\* the user may open one more dialogue
Open(u) == Cardinality({c \in Convs : conv[u][c] # END}) < MaxOpen

SetConv(u, c, s) == [conv EXCEPT ![u][c] = s]
\* a clear() that leaves the mapping as it is
ClearForgotten(u) == user_data
Clear(u) == [user_data EXCEPT ![u] = EmptyDict]
Store(u, k, v) == [user_data EXCEPT ![u] = Put(@, k, v)]

-----------------------------------------------------------------------------
(* New goal and new debt.                                                  *)

new_goal_start(u) ==
    /\ Route(u, Text("new goal")) = <<"new_goal", "new_goal_start">>
    /\ Open(u)
    /\ seq.goals < MaxGoals
    /\ conv' = SetConv(u, "new_goal", "GOAL_NAME")
    /\ last' = Said(u, "new_goal_start", 0, {"Prompt"})
    /\ UNCHANGED <<dbVars, user_data, buttons, almost_count, pageVars>>

get_goal_name(u, t) ==
    /\ Route(u, Text(t)) = <<"new_goal", "get_goal_name">>
    /\ user_data' = Store(u, "goal_name", t)
    /\ conv' = SetConv(u, "new_goal", "GOAL_AMOUNT")
    /\ last' = Said(u, "get_goal_name", 0, {"Prompt"})
    /\ UNCHANGED <<dbVars, buttons, almost_count, pageVars>>

get_goal_amount(u, t) ==
    /\ Route(u, Text(t)) = <<"new_goal", "get_goal_amount">>
    /\ IF IsFloat(t)
       THEN /\ user_data' = Store(u, "goal_amount", float(t))
            /\ conv' = SetConv(u, "new_goal", "GOAL_CURRENCY")
            /\ last' = Said(u, "get_goal_amount", 0, {"Prompt"})
       ELSE \* ValueError
            /\ last' = Said(u, "get_goal_amount", 0, {"NotANumber"})
            /\ UNCHANGED <<user_data, conv>>
    /\ UNCHANGED <<dbVars, buttons, almost_count, pageVars>>

\* The body shared by get_goal_currency_and_save and
\* get_debt_currency_and_save.  A KeyError on user_data is raised inside the
\* try and dropped by the return in the finally clause: nothing is sent.
SaveTarget(u, t, c, fn, name_key, amount_key, type) ==
    LET d == user_data[u]
        currency == upper(t)
    IN  /\ IF ~ Has(d, name_key) \/ ~ Has(d, amount_key)
           THEN /\ last' = Said(u, fn, 0, {})
                /\ UNCHANGED dbVars
           ELSE IF GoalInsertFails(d[name_key])
           THEN /\ last' = Said(u, fn, 0, {"Conflict"})
                /\ UNCHANGED dbVars
           ELSE /\ seq.goals < MaxGoals
                /\ goals' = InsertGoal(u, d[name_key], d[amount_key], currency, type)
                /\ seq' = [seq EXCEPT !.goals = @ + 1]
                /\ last' = Said(u, fn, seq.goals + 1, {"Saved"})
                /\ UNCHANGED <<savings, payments, payment_history, expenses, budgets,
                               assets>>
        /\ user_data' = Clear(u)
        /\ conv' = SetConv(u, c, END)
        /\ UNCHANGED <<buttons, almost_count, pageVars>>

get_goal_currency_and_save(u, t) ==
    /\ Route(u, Text(t)) = <<"new_goal", "get_goal_currency_and_save">>
    /\ SaveTarget(u, t, "new_goal", "get_goal_currency_and_save",
                  "goal_name", "goal_amount", "goal")

new_debt_start(u) ==
    /\ Route(u, Text("new debt")) = <<"new_debt", "new_debt_start">>
    /\ Open(u)
    /\ seq.goals < MaxGoals
    /\ conv' = SetConv(u, "new_debt", "DEBT_NAME")
    /\ last' = Said(u, "new_debt_start", 0, {"Prompt"})
    /\ UNCHANGED <<dbVars, user_data, buttons, almost_count, pageVars>>

get_debt_name(u, t) ==
    /\ Route(u, Text(t)) = <<"new_debt", "get_debt_name">>
    /\ user_data' = Store(u, "debt_name", t)
    /\ conv' = SetConv(u, "new_debt", "DEBT_AMOUNT")
    /\ last' = Said(u, "get_debt_name", 0, {"Prompt"})
    /\ UNCHANGED <<dbVars, buttons, almost_count, pageVars>>

get_debt_amount(u, t) ==
    /\ Route(u, Text(t)) = <<"new_debt", "get_debt_amount">>
    /\ IF IsFloat(t)
       THEN /\ user_data' = Store(u, "debt_amount", float(t))
            /\ conv' = SetConv(u, "new_debt", "DEBT_CURRENCY")
            /\ last' = Said(u, "get_debt_amount", 0, {"Prompt"})
       ELSE \* ValueError
            /\ last' = Said(u, "get_debt_amount", 0, {"NotANumber"})
            /\ UNCHANGED <<user_data, conv>>
    /\ UNCHANGED <<dbVars, buttons, almost_count, pageVars>>

get_debt_currency_and_save(u, t) ==
    /\ Route(u, Text(t)) = <<"new_debt", "get_debt_currency_and_save">>
    /\ SaveTarget(u, t, "new_debt", "get_debt_currency_and_save",
                  "debt_name", "debt_amount", "debt")

-----------------------------------------------------------------------------
(* add, delete: choose a goal or debt on a keyboard, then act on it.       *)

\* paginated_list_start, as called by add_start, delete_start, progress_start
paginated_list_start(u, c, fn, pre, state) ==
    LET list == get_user_goals_and_debts(u)
    IN  /\ IF list = << >>
           THEN /\ conv' = SetConv(u, c, END)
                /\ last' = Said(u, fn, 0, {"NothingToSelect"})
                /\ UNCHANGED buttons
           ELSE /\ buttons' = [buttons EXCEPT ![u] =
                       @ \cup ButtonsOf(generate_paginated_keyboard(list, pre, 0))]
                /\ conv' = SetConv(u, c, state)
                /\ last' = Said(u, fn, 0, {"Keyboard"})
        /\ UNCHANGED <<dbVars, user_data, almost_count, pageVars>>

add_start(u) ==
    /\ Route(u, Text("add")) = <<"add", "add_start">>
    /\ Open(u)
    /\ paginated_list_start(u, "add", "add_start", <<"add", "to">>, "ADD_SAVINGS_GOAL")

delete_start(u) ==
    /\ Route(u, Text("delete")) = <<"delete", "delete_start">>
    /\ Open(u)
    /\ paginated_list_start(u, "delete", "delete_start", <<"delete">>, "DELETE_GOAL_CONFIRM")

\* callback data whose last token is not the decimal form of an integer:
\* "_".join(pre) + "_" + tail
Garbled(pre, tail) == [pre |-> pre, arg |-> 0, tail |-> tail]

\* int(token) raises ValueError
IntFails(b) == "tail" \in DOMAIN b

\* An exception leaves the handler: the ConversationHandler keeps the state,
\* nothing the handler would have done after the raise is done, and the
\* application's error_handler answers that it tripped over a bug.
Raises(u, fn) ==
    /\ last' = Said(u, fn, 0, {"Bug"})
    /\ UNCHANGED <<dbVars, chatVars, almost_count, pageVars>>

\* goal_id = int(query.data.split("_")[-1])
\* a selection that already books a contribution of 0 for the goal
select_goal_for_adding_booking(u, b) ==
    /\ b \in buttons[u]
    /\ Route(u, Click(b.pre, b.arg)) = <<"add", "select_goal_for_adding">>
    /\ get_goal_by_id(b.arg) # NoRow
    /\ seq.savings < MaxSavings
    /\ savings' = InsertSaving(b.arg, 0)
    /\ seq' = [seq EXCEPT !.savings = @ + 1]
    /\ user_data' = Store(u, "selected_goal_id", b.arg)
    /\ conv' = SetConv(u, "add", "ADD_SAVINGS_AMOUNT")
    /\ last' = Said(u, "select_goal_for_adding", b.arg, {"Prompt"})
    /\ UNCHANGED <<goals, payments, payment_history, expenses, budgets, assets,
                   buttons, almost_count, pageVars>>

select_goal_for_adding(u, b) ==
    /\ b \in buttons[u] \/ IntFails(b)
    /\ Route(u, Click(b.pre, b.arg)) = <<"add", "select_goal_for_adding">>
    /\ IF IntFails(b)
       THEN Raises(u, "select_goal_for_adding")
       ELSE /\ IF get_goal_by_id(b.arg) = NoRow
               THEN /\ user_data' = Clear(u)
                    /\ conv' = SetConv(u, "add", END)
                    /\ last' = Said(u, "select_goal_for_adding", b.arg, {"NotFound"})
               ELSE /\ user_data' = Store(u, "selected_goal_id", b.arg)
                    /\ conv' = SetConv(u, "add", "ADD_SAVINGS_AMOUNT")
                    /\ last' = Said(u, "select_goal_for_adding", b.arg, {"Prompt"})
            /\ UNCHANGED <<dbVars, buttons, almost_count, pageVars>>

\* alerts that test the 90 percent branch before the 100 percent branch
TargetAlertsAlmostFirst(goal) ==
    IF goal.type = "goal"
       /\ ProgressAtLeast(goal.current_amount, goal.target_amount, 90)
       /\ goal.notified_90_percent = 0
    THEN {"AlmostThere"}
    ELSE IF goal.type = "goal"
            /\ ProgressAtLeast(goal.current_amount, goal.target_amount, 100)
    THEN {"GoalReached"}
    ELSE IF goal.type = "debt"
            /\ ProgressAtLeast(goal.current_amount, goal.target_amount, 100)
    THEN {"DebtCleared"}
    ELSE {}

\* alerts whose 90 percent branch does not look at the type
TargetAlertsAnyType(goal) ==
    IF goal.type = "goal"
       /\ ProgressAtLeast(goal.current_amount, goal.target_amount, 100)
    THEN {"GoalReached"}
    ELSE IF ProgressAtLeast(goal.current_amount, goal.target_amount, 90)
            /\ goal.notified_90_percent = 0
    THEN {"AlmostThere"}
    ELSE IF goal.type = "debt"
            /\ ProgressAtLeast(goal.current_amount, goal.target_amount, 100)
    THEN {"DebtCleared"}
    ELSE {}

\* The alerts of get_amount_and_save, decided on the row read back after
\* the commit.
TargetAlerts(goal) ==
    IF goal.type = "goal"
       /\ ProgressAtLeast(goal.current_amount, goal.target_amount, 100)
    THEN {"GoalReached"}
    ELSE IF goal.type = "goal"
            /\ ProgressAtLeast(goal.current_amount, goal.target_amount, 90)
            /\ goal.notified_90_percent = 0
    THEN {"AlmostThere"}
    ELSE IF goal.type = "debt"
            /\ ProgressAtLeast(goal.current_amount, goal.target_amount, 100)
    THEN {"DebtCleared"}
    ELSE {}

\* The goals table after the handler's writes: the increment, and the
\* one-shot flag when the "almost there" alert went out.
GoalsAfterSave(goal_id, amount) ==
    LET updated == AddToCurrentAmount(goals, goal_id, amount)
        goal    == RowById(updated, goal_id)
    IN  IF goal # NoRow /\ "AlmostThere" \in TargetAlerts(goal)
        THEN SetNotified(updated, goal_id)
        ELSE updated

Bump(f, k) == Put(f, k, IF Has(f, k) THEN (IF f[k] >= 2 THEN 2 ELSE f[k] + 1) ELSE 1)

get_amount_and_save(u, t) ==
    /\ Route(u, Text(t)) = <<"add", "get_amount_and_save">>
    /\ LET d == user_data[u]
       IN  IF ~ IsFloat(t)
           THEN \* ValueError: stay in ADD_SAVINGS_AMOUNT
                /\ last' = Said(u, "get_amount_and_save", 0, {"NotANumber"})
                /\ UNCHANGED <<dbVars, conv, user_data, almost_count>>
           ELSE IF ~ Has(d, "selected_goal_id")
           THEN /\ last' = Said(u, "get_amount_and_save", 0, {"LostContext"})
                /\ user_data' = Clear(u)
                /\ conv' = SetConv(u, "add", END)
                /\ UNCHANGED <<dbVars, almost_count>>
           ELSE IF SavingsInsertFails(d["selected_goal_id"])
           THEN \* IntegrityError, caught by except Exception; nothing committed
                /\ last' = Said(u, "get_amount_and_save", d["selected_goal_id"],
                                {"Unexpected"})
                /\ user_data' = Clear(u)
                /\ conv' = SetConv(u, "add", END)
                /\ UNCHANGED <<dbVars, almost_count>>
           ELSE LET goal_id == d["selected_goal_id"]
                    amount  == float(t)
                    goal    == RowById(AddToCurrentAmount(goals, goal_id, amount), goal_id)
                    alerts  == IF goal = NoRow THEN {} ELSE TargetAlerts(goal)
                IN  /\ seq.savings < MaxSavings
                    /\ savings' = InsertSaving(goal_id, amount)
                    /\ seq' = [seq EXCEPT !.savings = @ + 1]
                    /\ goals' = GoalsAfterSave(goal_id, amount)
                    /\ last' = Said(u, "get_amount_and_save", goal_id,
                                    IF goal = NoRow THEN {"RecordedNoDetails"}
                                    ELSE {"Recorded"} \cup alerts)
                    /\ almost_count' = IF "AlmostThere" \in alerts
                                       THEN Bump(almost_count, goal_id)
                                       ELSE almost_count
                    /\ user_data' = Clear(u)
                    /\ conv' = SetConv(u, "add", END)
                    /\ UNCHANGED <<payments, payment_history, expenses, budgets,
                                   assets>>
    /\ UNCHANGED <<buttons, pageVars>>

confirm_delete(u, b) ==
    /\ b \in buttons[u] \/ IntFails(b)
    /\ Route(u, Click(b.pre, b.arg)) = <<"delete", "confirm_delete">>
    /\ IF IntFails(b)
       THEN Raises(u, "confirm_delete")
       ELSE /\ IF get_goal_by_id(b.arg) # NoRow
               THEN /\ goals' = DeleteGoalRows(b.arg)
                    /\ savings' = CascadeSavings(b.arg)
                    /\ last' = Said(u, "confirm_delete", b.arg, {"Deleted"})
               ELSE /\ last' = Said(u, "confirm_delete", b.arg, {"NotFound"})
                    /\ UNCHANGED <<goals, savings>>
            /\ conv' = SetConv(u, "delete", END)
            /\ UNCHANGED <<payments, payment_history, expenses, budgets, assets, seq,
                           user_data, buttons, almost_count, pageVars>>

\* a cancel that ends the dialogue and leaves user_data as it is
cancel_keeps_data(u, t) ==
    /\ \E c \in Convs \cup {"top"} :
          /\ Route(u, Text(t)) = <<c, "cancel">>
          /\ conv' = IF c = "top" THEN conv ELSE SetConv(u, c, END)
    /\ last' = Said(u, "cancel", 0, {"Aborted"})
    /\ UNCHANGED <<dbVars, user_data, buttons, almost_count, pageVars>>

\* cancel: the fallback of every conversation, the '^cancel$' handler of
\* some states, and the plain CommandHandler("cancel") behind them
cancel(u, t) ==
    /\ \E c \in Convs \cup {"top"} :
          /\ Route(u, Text(t)) = <<c, "cancel">>
          /\ conv' = IF c = "top" THEN conv ELSE SetConv(u, c, END)
    /\ user_data' = Clear(u)
    /\ last' = Said(u, "cancel", 0, {"Aborted"})
    /\ UNCHANGED <<dbVars, buttons, almost_count, pageVars>>

\* erase_all, erase_all_data: every table of every user, in one transaction
erase_all(u) ==
    /\ Route(u, Text("erase all")) = <<"top", "erase_all">>
    /\ goals' = {}
    /\ savings' = {}
    /\ payments' = {}
    /\ payment_history' = {}
    /\ expenses' = {}
    /\ budgets' = {}
    /\ assets' = {}
    /\ last' = Said(u, "erase_all", 0, {"Erased"})
    /\ UNCHANGED <<seq, chatVars, almost_count, pageVars>>

-----------------------------------------------------------------------------
(* Payments.                                                               *)
(*   payments:        [id, user_id, name, target_amount, current_amount,   *)
(*                     currency, payment_amount, payment_frequency,        *)
(*                     recipient]                 name is UNIQUE           *)
(*   payment_history: [id, payment_id, amount]    payment_id REFERENCES    *)
(*                                                payments ON DELETE CASCADE *)

\* the place of a name in ORDER BY name, for the names the model sends
NameRank(n) ==
    CASE n = "a" -> 1
      [] n = "b" -> 2
      [] n = "c" -> 3
      [] n = "d" -> 4
      [] n = "e" -> 5
      [] n = "f" -> 6
      [] OTHER   -> 7

RECURSIVE SortByName(_)
SortByName(rows) ==
    IF rows = {} THEN << >>
    ELSE LET r == CHOOSE x \in rows :
                     \A y \in rows : NameRank(x.name) <= NameRank(y.name)
         IN  <<r>> \o SortByName(rows \ {r})

get_user_payments(user_id) ==
    SortByName({p \in payments : p.user_id = user_id})

get_payment_by_id(payment_id) == RowById(payments, payment_id)

\* a payments table without the UNIQUE constraint: the INSERT never fails
PaymentInsertUnchecked(name) == FALSE

\* INSERT INTO payments raises sqlite3.IntegrityError: name TEXT NOT NULL UNIQUE
PaymentInsertFails(name) == \E p \in payments : p.name = name

\* INSERT INTO payment_history raises sqlite3.IntegrityError when the
\* payment is gone
HistoryInsertFails(payment_id) == ~ \E p \in payments : p.id = payment_id

InsertHistory(payment_id, amount) ==
    payment_history \cup {[id |-> seq.payment_history + 1,
                           payment_id |-> payment_id, amount |-> amount]}

\* a store that writes the amount over current_amount
SetPaymentCurrentAmount(payment_id, amount) ==
    {IF p.id = payment_id
     THEN [p EXCEPT !.current_amount = amount]
     ELSE p : p \in payments}

\* UPDATE payments SET current_amount = current_amount + ? WHERE id = ?
AddToPaymentCurrentAmount(payment_id, amount) ==
    {IF p.id = payment_id
     THEN [p EXCEPT !.current_amount = p.current_amount + amount]
     ELSE p : p \in payments}

\* delete_payment_from_db: DELETE FROM payments WHERE id = ?, cascading
DeletePaymentRows(payment_id) == {p \in payments : p.id # payment_id}
CascadeHistory(payment_id) == {h \in payment_history : h.payment_id # payment_id}

new_payment_start(u) ==
    /\ Route(u, Text("new payment")) = <<"new_payment", "new_payment_start">>
    /\ Open(u)
    /\ seq.payments < MaxPayments
    /\ conv' = SetConv(u, "new_payment", "PAYMENT_NAME")
    /\ last' = Said(u, "new_payment_start", 0, {"Prompt"})
    /\ UNCHANGED <<dbVars, user_data, buttons, almost_count, pageVars>>

get_payment_name(u, t) ==
    /\ Route(u, Text(t)) = <<"new_payment", "get_payment_name">>
    /\ user_data' = Store(u, "payment_name", t)
    /\ conv' = SetConv(u, "new_payment", "PAYMENT_RECIPIENT")
    /\ last' = Said(u, "get_payment_name", 0, {"Prompt"})
    /\ UNCHANGED <<dbVars, buttons, almost_count, pageVars>>

get_payment_recipient(u, t) ==
    /\ Route(u, Text(t)) = <<"new_payment", "get_payment_recipient">>
    /\ user_data' = Store(u, "payment_recipient", t)
    /\ conv' = SetConv(u, "new_payment", "PAYMENT_TARGET")
    /\ last' = Said(u, "get_payment_recipient", 0, {"Prompt"})
    /\ UNCHANGED <<dbVars, buttons, almost_count, pageVars>>

get_payment_target(u, t) ==
    /\ Route(u, Text(t)) = <<"new_payment", "get_payment_target">>
    /\ IF IsFloat(t)
       THEN /\ user_data' = Store(u, "payment_target", float(t))
            /\ conv' = SetConv(u, "new_payment", "PAYMENT_CURRENCY")
            /\ last' = Said(u, "get_payment_target", 0, {"Prompt"})
       ELSE \* ValueError
            /\ last' = Said(u, "get_payment_target", 0, {"NotANumber"})
            /\ UNCHANGED <<user_data, conv>>
    /\ UNCHANGED <<dbVars, buttons, almost_count, pageVars>>

\* payment_currency is stored before payment_target is read: a KeyError
\* leaves the handler with the key stored and the state kept; the
\* application's error_handler tells the user of a bug
get_payment_currency(u, t) ==
    /\ Route(u, Text(t)) = <<"new_payment", "get_payment_currency">>
    /\ user_data' = Store(u, "payment_currency", upper(t))
    /\ IF Has(user_data[u], "payment_target")
       THEN /\ conv' = SetConv(u, "new_payment", "PAYMENT_AMOUNT")
            /\ last' = Said(u, "get_payment_currency", 0, {"Prompt"})
       ELSE /\ last' = Said(u, "get_payment_currency", 0, {"Bug"})
            /\ UNCHANGED conv
    /\ UNCHANGED <<dbVars, buttons, almost_count, pageVars>>

get_payment_amount(u, t) ==
    /\ Route(u, Text(t)) = <<"new_payment", "get_payment_amount">>
    /\ IF IsFloat(t)
       THEN /\ user_data' = Store(u, "payment_amount", float(t))
            /\ conv' = SetConv(u, "new_payment", "PAYMENT_FREQUENCY")
            /\ last' = Said(u, "get_payment_amount", 0, {"Prompt"})
       ELSE \* ValueError
            /\ last' = Said(u, "get_payment_amount", 0, {"NotANumber"})
            /\ UNCHANGED <<user_data, conv>>
    /\ UNCHANGED <<dbVars, buttons, almost_count, pageVars>>

PaymentKeys ==
    {"payment_name", "payment_recipient", "payment_target", "payment_currency",
     "payment_amount"}

Frequencies == {"weekly", "monthly", "quarterly", "yearly"}

\* the five reads of user_data come before the try: a KeyError leaves the
\* handler with nothing changed; error_handler tells the user of a bug
save_payment(u, t) ==
    /\ Route(u, Text(t)) = <<"new_payment", "save_payment">>
    /\ LET d == user_data[u]
           frequency == IF lower(t) \in Frequencies THEN lower(t) ELSE "monthly"
       IN  IF ~ (PaymentKeys \subseteq DOMAIN d)
           THEN /\ last' = Said(u, "save_payment", 0, {"Bug"})
                /\ UNCHANGED <<dbVars, user_data, conv>>
           ELSE IF PaymentInsertFails(d["payment_name"])
           THEN /\ last' = Said(u, "save_payment", 0, {"Conflict"})
                /\ user_data' = Clear(u)
                /\ conv' = SetConv(u, "new_payment", END)
                /\ UNCHANGED dbVars
           ELSE /\ seq.payments < MaxPayments
                /\ payments' = payments \cup
                      {[id |-> seq.payments + 1, user_id |-> u,
                        name |-> d["payment_name"],
                        target_amount |-> d["payment_target"],
                        current_amount |-> 0,
                        currency |-> d["payment_currency"],
                        payment_amount |-> d["payment_amount"],
                        payment_frequency |-> frequency,
                        recipient |-> d["payment_recipient"]]}
                /\ seq' = [seq EXCEPT !.payments = @ + 1]
                /\ last' = Said(u, "save_payment", seq.payments + 1, {"Saved"})
                /\ user_data' = Clear(u)
                /\ conv' = SetConv(u, "new_payment", END)
                /\ UNCHANGED <<goals, savings, payment_history, expenses, budgets,
                               assets>>
    /\ UNCHANGED <<buttons, almost_count, pageVars>>

\* payment_list_start, as called by add_payment_start, delete_payment_start
payment_list_start(u, c, fn, pre, state) ==
    LET list == get_user_payments(u)
    IN  /\ IF list = << >>
           THEN /\ conv' = SetConv(u, c, END)
                /\ last' = Said(u, fn, 0, {"NothingToSelect"})
                /\ UNCHANGED buttons
           ELSE /\ buttons' = [buttons EXCEPT ![u] =
                       @ \cup ButtonsOf(generate_payment_keyboard(list, pre, 0))]
                /\ conv' = SetConv(u, c, state)
                /\ last' = Said(u, fn, 0, {"Keyboard"})
        /\ UNCHANGED <<dbVars, user_data, almost_count, pageVars>>

add_payment_start(u) ==
    /\ Route(u, Text("add payment")) = <<"add_payment", "add_payment_start">>
    /\ Open(u)
    /\ payment_list_start(u, "add_payment", "add_payment_start",
                          <<"add", "payment">>, "ADD_PAYMENT_SELECT")

delete_payment_start(u) ==
    /\ Route(u, Text("delete payment")) = <<"delete_payment", "delete_payment_start">>
    /\ Open(u)
    /\ payment_list_start(u, "delete_payment", "delete_payment_start",
                          <<"delete", "payment">>, "DELETE_PAYMENT_SELECT")

\* selected_payment_id is stored before the payment is looked up
select_payment_for_adding(u, b) ==
    /\ b \in buttons[u] \/ IntFails(b)
    /\ Route(u, Click(b.pre, b.arg)) = <<"add_payment", "select_payment_for_adding">>
    /\ IF IntFails(b)
       THEN Raises(u, "select_payment_for_adding")
       ELSE /\ IF get_payment_by_id(b.arg) = NoRow
               THEN /\ user_data' = Clear(u)
                    /\ conv' = SetConv(u, "add_payment", END)
                    /\ last' = Said(u, "select_payment_for_adding", b.arg, {"NotFound"})
               ELSE /\ user_data' = Store(u, "selected_payment_id", b.arg)
                    /\ conv' = SetConv(u, "add_payment", "ADD_PAYMENT_AMOUNT")
                    /\ last' = Said(u, "select_payment_for_adding", b.arg, {"Prompt"})
            /\ UNCHANGED <<dbVars, buttons, almost_count, pageVars>>

get_payment_amount_and_save(u, t) ==
    /\ Route(u, Text(t)) = <<"add_payment", "get_payment_amount_and_save">>
    /\ LET d == user_data[u]
       IN  IF ~ IsFloat(t)
           THEN \* ValueError: stay in ADD_PAYMENT_AMOUNT
                /\ last' = Said(u, "get_payment_amount_and_save", 0, {"NotANumber"})
                /\ UNCHANGED <<dbVars, conv, user_data>>
           ELSE IF ~ Has(d, "selected_payment_id")
           THEN /\ last' = Said(u, "get_payment_amount_and_save", 0, {"LostContext"})
                /\ user_data' = Clear(u)
                /\ conv' = SetConv(u, "add_payment", END)
                /\ UNCHANGED dbVars
           ELSE IF HistoryInsertFails(d["selected_payment_id"])
           THEN \* IntegrityError, caught by except Exception; nothing committed
                /\ last' = Said(u, "get_payment_amount_and_save",
                                d["selected_payment_id"], {"Unexpected"})
                /\ user_data' = Clear(u)
                /\ conv' = SetConv(u, "add_payment", END)
                /\ UNCHANGED dbVars
           ELSE LET payment_id == d["selected_payment_id"]
                    amount     == float(t)
                    updated    == AddToPaymentCurrentAmount(payment_id, amount)
                    payment    == RowById(updated, payment_id)
                IN  /\ seq.payment_history < MaxHistory
                    /\ payment_history' = InsertHistory(payment_id, amount)
                    /\ seq' = [seq EXCEPT !.payment_history = @ + 1]
                    /\ payments' = updated
                    /\ last' = Said(u, "get_payment_amount_and_save", payment_id,
                                    IF payment = NoRow THEN {}
                                    ELSE IF payment.current_amount >= payment.target_amount
                                    THEN {"Recorded", "TargetReached"}
                                    ELSE {"Recorded"})
                    /\ user_data' = Clear(u)
                    /\ conv' = SetConv(u, "add_payment", END)
                    /\ UNCHANGED <<goals, savings, expenses, budgets, assets>>
    /\ UNCHANGED <<buttons, almost_count, pageVars>>

confirm_payment_delete(u, b) ==
    /\ b \in buttons[u] \/ IntFails(b)
    /\ Route(u, Click(b.pre, b.arg)) = <<"delete_payment", "confirm_payment_delete">>
    /\ IF IntFails(b)
       THEN Raises(u, "confirm_payment_delete")
       ELSE /\ IF get_payment_by_id(b.arg) # NoRow
               THEN /\ payments' = DeletePaymentRows(b.arg)
                    /\ payment_history' = CascadeHistory(b.arg)
                    /\ last' = Said(u, "confirm_payment_delete", b.arg, {"Deleted"})
               ELSE /\ last' = Said(u, "confirm_payment_delete", b.arg, {"NotFound"})
                    /\ UNCHANGED <<payments, payment_history>>
            /\ conv' = SetConv(u, "delete_payment", END)
            /\ UNCHANGED <<goals, savings, expenses, budgets, assets, seq,
                           user_data, buttons, almost_count, pageVars>>

-----------------------------------------------------------------------------
(* Expenses and budgets.                                                   *)
(*   expenses: [id, user_id, amount, currency, reason, category]           *)
(*   budgets:  [id, user_id, category, amount, currency, period,           *)
(*              current_spent]                                             *)

\* category = text.lower(); if category not in EXPENSE_CATEGORIES: 'other'
CategoryOf(t) == IF lower(t) \in EXPENSE_CATEGORIES THEN lower(t) ELSE "other"

MatchingBudgets(rows, user_id, category, currency) ==
    {b \in rows : b.user_id = user_id /\ b.category = category
                  /\ b.currency = currency}

\* an UPDATE whose WHERE clause leaves the user out
update_budget_spending_any_user(user_id, category, amount, currency) ==
    {IF b.category = category /\ b.currency = currency
     THEN [b EXCEPT !.current_spent = b.current_spent + amount]
     ELSE b : b \in budgets}

\* update_budget_spending: the budgets table after
\* UPDATE budgets SET current_spent = current_spent + ?
\* WHERE user_id = ? AND category = ? AND currency = ?
update_budget_spending(user_id, category, amount, currency) ==
    {IF b \in MatchingBudgets(budgets, user_id, category, currency)
     THEN [b EXCEPT !.current_spent = b.current_spent + amount]
     ELSE b : b \in budgets}

\* percentage = (spent / limit) * 100 if limit > 0 else 0, compared with a
\* threshold: percentage >= pct
PercentageAtLeast(spent, limit, pct) ==
    IF limit > 0 THEN spent * 100 >= pct * limit ELSE 0 >= pct

\* check_budget_alerts on the table rows: the alert text, as a set
check_budget_alerts(rows, user_id, category, currency) ==
    LET found == MatchingBudgets(rows, user_id, category, currency)
    IN  IF found = {} THEN {}
        ELSE LET budget == CHOOSE b \in found : \A c \in found : b.id <= c.id
             IN  IF PercentageAtLeast(budget.current_spent, budget.amount, 100)
                 THEN {"BudgetExceeded"}
                 ELSE IF PercentageAtLeast(budget.current_spent, budget.amount, 80)
                 THEN {"BudgetWarning"}
                 ELSE {}

add_expense_start(u) ==
    /\ Route(u, Text("add expense")) = <<"add_expense", "add_expense_start">>
    /\ Open(u)
    /\ seq.expenses < MaxExpenses
    /\ conv' = SetConv(u, "add_expense", "EXPENSE_AMOUNT")
    /\ last' = Said(u, "add_expense_start", 0, {"Prompt"})
    /\ UNCHANGED <<dbVars, user_data, buttons, almost_count, pageVars>>

get_expense_amount(u, t) ==
    /\ Route(u, Text(t)) = <<"add_expense", "get_expense_amount">>
    /\ IF IsFloat(t)
       THEN /\ user_data' = Store(u, "expense_amount", float(t))
            /\ conv' = SetConv(u, "add_expense", "EXPENSE_CURRENCY")
            /\ last' = Said(u, "get_expense_amount", 0, {"Prompt"})
       ELSE \* ValueError
            /\ last' = Said(u, "get_expense_amount", 0, {"NotANumber"})
            /\ UNCHANGED <<user_data, conv>>
    /\ UNCHANGED <<dbVars, buttons, almost_count, pageVars>>

get_expense_currency(u, t) ==
    /\ Route(u, Text(t)) = <<"add_expense", "get_expense_currency">>
    /\ user_data' = Store(u, "expense_currency", upper(t))
    /\ conv' = SetConv(u, "add_expense", "EXPENSE_CATEGORY")
    /\ last' = Said(u, "get_expense_currency", 0, {"Prompt"})
    /\ UNCHANGED <<dbVars, buttons, almost_count, pageVars>>

get_expense_category(u, t) ==
    /\ Route(u, Text(t)) = <<"add_expense", "get_expense_category">>
    /\ user_data' = Store(u, "expense_category", CategoryOf(t))
    /\ conv' = SetConv(u, "add_expense", "EXPENSE_REASON")
    /\ last' = Said(u, "get_expense_category", 0, {"Prompt"})
    /\ UNCHANGED <<dbVars, buttons, almost_count, pageVars>>

\* send_message(..., parse_mode='HTML') raises BadRequest for a text that
\* is not well-formed HTML; the reason is put into the reply as typed
BreaksHTML(t) == t \in {"<3"}

\* update_budget_spending when its UPDATE raises: the except clause logs
\* and returns False, the table is as before
update_budget_spending_raises(user_id, category, amount, currency) == budgets

\* expense_amount and expense_currency are read before the try: a KeyError
\* leaves the handler with nothing changed but error_handler's reply.  The expense
\* is committed first; the budget is then updated, in a transaction of its
\* own, and read back.  A reply that Telegram rejects raises after both
\* commits: except Exception answers "Error saving expense. Try again."
save_expense(u, t) ==
    /\ Route(u, Text(t)) = <<"add_expense", "save_expense">>
    /\ LET d == user_data[u]
       IN  IF ~ ({"expense_amount", "expense_currency"} \subseteq DOMAIN d)
           THEN /\ last' = Said(u, "save_expense", 0, {"Bug"})
                /\ UNCHANGED <<dbVars, user_data, conv>>
           ELSE LET amount   == d["expense_amount"]
                    currency == d["expense_currency"]
                    category == IF Has(d, "expense_category")
                                THEN d["expense_category"] ELSE "other"
                    updated  == update_budget_spending(u, category, amount, currency)
                    budget_alert == check_budget_alerts(updated, u, category, currency)
                IN  /\ seq.expenses < MaxExpenses
                    /\ expenses' = expenses \cup
                          {[id |-> seq.expenses + 1, user_id |-> u, amount |-> amount,
                            currency |-> currency, reason |-> t,
                            category |-> category]}
                    /\ seq' = [seq EXCEPT !.expenses = @ + 1]
                    /\ budgets' = updated
                    /\ last' = Said(u, "save_expense", seq.expenses + 1,
                                    IF BreaksHTML(t) THEN {"Unexpected"}
                                    ELSE {"Recorded"} \cup budget_alert)
                    /\ user_data' = Clear(u)
                    /\ conv' = SetConv(u, "add_expense", END)
                    /\ UNCHANGED <<goals, savings, payments, payment_history,
                                   assets>>
    /\ UNCHANGED <<buttons, almost_count, pageVars>>

\* save_expense when the UPDATE of update_budget_spending raises after the
\* expense was committed: the expense stays, the budget is as before, and
\* the handler goes on to check_budget_alerts and the reply
save_expense_update_raises(u, t) ==
    /\ Route(u, Text(t)) = <<"add_expense", "save_expense">>
    /\ LET d == user_data[u]
       IN  /\ {"expense_amount", "expense_currency"} \subseteq DOMAIN d
           /\ LET amount   == d["expense_amount"]
                   currency == d["expense_currency"]
                   category == IF Has(d, "expense_category")
                               THEN d["expense_category"] ELSE "other"
                   updated  == update_budget_spending_raises(u, category, amount,
                                                             currency)
                   budget_alert == check_budget_alerts(updated, u, category, currency)
               IN  /\ seq.expenses < MaxExpenses
                   /\ expenses' = expenses \cup
                         {[id |-> seq.expenses + 1, user_id |-> u, amount |-> amount,
                           currency |-> currency, reason |-> t,
                           category |-> category]}
                   /\ seq' = [seq EXCEPT !.expenses = @ + 1]
                   /\ budgets' = updated
                   /\ last' = Said(u, "save_expense", seq.expenses + 1,
                                   IF BreaksHTML(t) THEN {"Unexpected"}
                                   ELSE {"Recorded"} \cup budget_alert)
                   /\ user_data' = Clear(u)
                   /\ conv' = SetConv(u, "add_expense", END)
                   /\ UNCHANGED <<goals, savings, payments, payment_history,
                                  assets>>
    /\ UNCHANGED <<buttons, almost_count, pageVars>>

\* get_expenses_by_period: the rows of SELECT amount, currency, reason,
\* created_at FROM expenses WHERE user_id = ? AND <period>, newest first.
\* The model has no clock: every expense was recorded today, so each
\* period holds all of the user's expenses.  created_at is given by the id.
RECURSIVE NewestFirst(_)
NewestFirst(rows) ==
    IF rows = {} THEN << >>
    ELSE LET r == CHOOSE x \in rows : \A y \in rows : x.id >= y.id
         IN  <<r>> \o NewestFirst(rows \ {r})

get_expenses_by_period(user_id, period) ==
    LET list == NewestFirst({e \in expenses : e.user_id = user_id})
    IN  [i \in 1..Len(list) |->
            <<list[i].amount, list[i].currency, list[i].reason, list[i].id>>]

\* "for a, b, ... in rows" with n names: ValueError (not enough, or too
\* many, values to unpack) at the first row that has not n columns
UnpackFails(rows, n) == \E i \in 1..Len(rows) : Len(rows[i]) # n

\* fmt_expense_report unpacks amount, currency, reason, category,
\* created_at from every row: TRUE when it raises
fmt_expense_report_raises(rows) == UnpackFails(rows, 5)

\* get_expense_totals_by_currency unpacks amount, currency, _, _, _ from
\* every row of the period: TRUE when it raises
get_expense_totals_by_currency_raises(user_id, period) ==
    UnpackFails(get_expenses_by_period(user_id, period), 5)

\* expense_report: the reports of today and of the week are formatted and
\* sent; an exception leaves the handler and error_handler replies
expense_report(u) ==
    /\ Route(u, Text("expense report")) = <<"top", "expense_report">>
    /\ LET today_expenses == get_expenses_by_period(u, "today")
           week_expenses  == get_expenses_by_period(u, "week")
       IN  last' = Said(u, "expense_report", 0,
                        IF \/ fmt_expense_report_raises(today_expenses)
                           \/ fmt_expense_report_raises(week_expenses)
                        THEN {"Bug"} ELSE {"Report"})
    /\ UNCHANGED <<dbVars, chatVars, almost_count, pageVars>>

\* expense_compare: the totals of the week against those of the week before
expense_compare(u) ==
    /\ Route(u, Text("expense compare")) = <<"top", "expense_compare">>
    /\ last' = Said(u, "expense_compare", 0,
                    IF get_expense_totals_by_currency_raises(u, "week")
                    THEN {"Bug"} ELSE {"Comparison"})
    /\ UNCHANGED <<dbVars, chatVars, almost_count, pageVars>>

set_budget_start(u) ==
    /\ Route(u, Text("set budget")) = <<"set_budget", "set_budget_start">>
    /\ Open(u)
    /\ conv' = SetConv(u, "set_budget", "BUDGET_CATEGORY")
    /\ last' = Said(u, "set_budget_start", 0, {"Prompt"})
    /\ UNCHANGED <<dbVars, user_data, buttons, almost_count, pageVars>>

get_budget_category(u, t) ==
    /\ Route(u, Text(t)) = <<"set_budget", "get_budget_category">>
    /\ user_data' = Store(u, "budget_category", CategoryOf(t))
    /\ conv' = SetConv(u, "set_budget", "BUDGET_AMOUNT")
    /\ last' = Said(u, "get_budget_category", 0, {"Prompt"})
    /\ UNCHANGED <<dbVars, buttons, almost_count, pageVars>>

get_budget_amount(u, t) ==
    /\ Route(u, Text(t)) = <<"set_budget", "get_budget_amount">>
    /\ IF IsFloat(t)
       THEN /\ user_data' = Store(u, "budget_amount", float(t))
            /\ conv' = SetConv(u, "set_budget", "BUDGET_CURRENCY")
            /\ last' = Said(u, "get_budget_amount", 0, {"Prompt"})
       ELSE \* ValueError
            /\ last' = Said(u, "get_budget_amount", 0, {"NotANumber"})
            /\ UNCHANGED <<user_data, conv>>
    /\ UNCHANGED <<dbVars, buttons, almost_count, pageVars>>

get_budget_currency(u, t) ==
    /\ Route(u, Text(t)) = <<"set_budget", "get_budget_currency">>
    /\ user_data' = Store(u, "budget_currency", upper(t))
    /\ conv' = SetConv(u, "set_budget", "BUDGET_PERIOD")
    /\ last' = Said(u, "get_budget_currency", 0, {"Prompt"})
    /\ UNCHANGED <<dbVars, buttons, almost_count, pageVars>>

BudgetKeys == {"budget_category", "budget_amount", "budget_currency"}

Periods == {"weekly", "monthly"}

\* a set budget that starts the spending of an existing budget again at 0
save_budget_resetting(u, t) ==
    /\ Route(u, Text(t)) = <<"set_budget", "save_budget">>
    /\ LET d == user_data[u]
           period == IF lower(t) \in Periods THEN lower(t) ELSE "monthly"
       IN  IF ~ (BudgetKeys \subseteq DOMAIN d)
           THEN /\ last' = Said(u, "save_budget", 0, {"Bug"})
                /\ UNCHANGED <<dbVars, user_data, conv>>
           ELSE LET category == d["budget_category"]
                    amount   == d["budget_amount"]
                    currency == d["budget_currency"]
                    found    == MatchingBudgets(budgets, u, category, currency)
                IN  /\ IF found # {}
                       THEN LET existing == CHOOSE b \in found :
                                               \A c \in found : b.id <= c.id
                            IN  /\ budgets' =
                                      {IF b.id = existing.id
                                       THEN [b EXCEPT !.amount = amount,
                                                      !.period = period,
                                                      !.current_spent = 0]
                                       ELSE b : b \in budgets}
                                /\ last' = Said(u, "save_budget", existing.id,
                                                {"Updated"})
                                /\ UNCHANGED seq
                       ELSE /\ seq.budgets < MaxBudgets
                            /\ budgets' = budgets \cup
                                  {[id |-> seq.budgets + 1, user_id |-> u,
                                    category |-> category, amount |-> amount,
                                    currency |-> currency, period |-> period,
                                    current_spent |-> 0]}
                            /\ seq' = [seq EXCEPT !.budgets = @ + 1]
                            /\ last' = Said(u, "save_budget", seq.budgets + 1,
                                            {"Created"})
                    /\ user_data' = Clear(u)
                    /\ conv' = SetConv(u, "set_budget", END)
                    /\ UNCHANGED <<goals, savings, payments, payment_history,
                                   expenses, assets>>
    /\ UNCHANGED <<buttons, almost_count, pageVars>>

\* the three reads of user_data come before the try: a KeyError leaves the
\* handler with nothing changed but error_handler's reply.  An existing budget of
\* the same (user, category, currency) gets the new amount and period and
\* keeps its current_spent; otherwise a row is inserted.
save_budget(u, t) ==
    /\ Route(u, Text(t)) = <<"set_budget", "save_budget">>
    /\ LET d == user_data[u]
           period == IF lower(t) \in Periods THEN lower(t) ELSE "monthly"
       IN  IF ~ (BudgetKeys \subseteq DOMAIN d)
           THEN /\ last' = Said(u, "save_budget", 0, {"Bug"})
                /\ UNCHANGED <<dbVars, user_data, conv>>
           ELSE LET category == d["budget_category"]
                    amount   == d["budget_amount"]
                    currency == d["budget_currency"]
                    found    == MatchingBudgets(budgets, u, category, currency)
                IN  /\ IF found # {}
                       THEN LET existing == CHOOSE b \in found :
                                               \A c \in found : b.id <= c.id
                            IN  /\ budgets' =
                                      {IF b.id = existing.id
                                       THEN [b EXCEPT !.amount = amount,
                                                      !.period = period]
                                       ELSE b : b \in budgets}
                                /\ last' = Said(u, "save_budget", existing.id,
                                                {"Updated"})
                                /\ UNCHANGED seq
                       ELSE /\ seq.budgets < MaxBudgets
                            /\ budgets' = budgets \cup
                                  {[id |-> seq.budgets + 1, user_id |-> u,
                                    category |-> category, amount |-> amount,
                                    currency |-> currency, period |-> period,
                                    current_spent |-> 0]}
                            /\ seq' = [seq EXCEPT !.budgets = @ + 1]
                            /\ last' = Said(u, "save_budget", seq.budgets + 1,
                                            {"Created"})
                    /\ user_data' = Clear(u)
                    /\ conv' = SetConv(u, "set_budget", END)
                    /\ UNCHANGED <<goals, savings, payments, payment_history,
                                   expenses, assets>>
    /\ UNCHANGED <<buttons, almost_count, pageVars>>

-----------------------------------------------------------------------------
(* Assets.                                                                 *)
(*   assets: [id, user_id, name, amount, currency, asset_type, updated_at] *)
(* The table has no UNIQUE constraint.  updated_at is CURRENT_TIMESTAMP at *)
(* each write of the row; the model keeps it as the number of writes the   *)
(* row has had, which changes exactly when a write stamps the row.         *)

\* str.strip() on the texts the model sends
strip(t) ==
    CASE t = " +50 " -> "+50"
      [] OTHER       -> t

\* str.startswith(c), c one of '+' and '-'
startswith(t, c) ==
    CASE c = "+" -> t \in {"+50", "+-5", "+x"}
      [] c = "-" -> t \in {"-1000", "-0", "--5", "-5", "-40", "-x"}
      [] OTHER   -> FALSE

\* amount_text[1:]
AfterFirst(t) ==
    CASE t = "+50"   -> "50"
      [] t = "+-5"   -> "-5"
      [] t = "+x"    -> "x"
      [] t = "-1000" -> "1000"
      [] t = "-0"    -> "0"
      [] t = "--5"   -> "-5"
      [] t = "-5"    -> "5"
      [] t = "-40"   -> "40"
      [] t = "-x"    -> "x"
      [] OTHER       -> t

\* the place of an asset type in ORDER BY asset_type
TypeRank(a) ==
    CASE a = "cash"   -> 1
      [] a = "crypto" -> 2
      [] OTHER        -> 3

\* ORDER BY asset_type, name; rows that tie come in rowid order
RECURSIVE SortByTypeName(_)
SortByTypeName(rows) ==
    IF rows = {} THEN << >>
    ELSE LET key(x) == <<TypeRank(x.asset_type), NameRank(x.name), x.id>>
             before(x, y) ==
                 \/ key(x)[1] < key(y)[1]
                 \/ key(x)[1] = key(y)[1] /\ key(x)[2] < key(y)[2]
                 \/ key(x)[1] = key(y)[1] /\ key(x)[2] = key(y)[2]
                    /\ key(x)[3] <= key(y)[3]
             r == CHOOSE x \in rows : \A y \in rows : before(x, y)
         IN  <<r>> \o SortByTypeName(rows \ {r})

get_user_assets(user_id) ==
    SortByTypeName({a \in assets : a.user_id = user_id})

get_asset_by_id(asset_id) == RowById(assets, asset_id)

\* a lookup that never finds the asset
ExistingAssetNever(user_id, name, currency) == NoRow

\* SELECT id FROM assets WHERE user_id = ? AND name = ? AND currency = ?,
\* fetchone(): the first such row, or None (NoRow)
ExistingAsset(user_id, name, currency) ==
    LET found == {a \in assets : /\ a.user_id = user_id
                                 /\ a.name = name
                                 /\ a.currency = currency}
    IN  IF found = {} THEN NoRow
        ELSE CHOOSE a \in found : \A x \in found : a.id <= x.id

\* an update that writes the amount over the old one
update_asset_amount_overwrite(asset_id, amount_change, operation) ==
    {IF a.id = asset_id
     THEN [a EXCEPT !.amount = IF operation = "add" THEN amount_change
                               ELSE 0 - amount_change,
                    !.updated_at = @ + 1]
     ELSE a : a \in assets}

\* update_asset_amount: amount = amount + ? or amount = amount - ?, and
\* updated_at = CURRENT_TIMESTAMP, WHERE id = ?
update_asset_amount(asset_id, amount_change, operation) ==
    {IF a.id = asset_id
     THEN [a EXCEPT !.amount = IF operation = "add" THEN @ + amount_change
                               ELSE @ - amount_change,
                    !.updated_at = @ + 1]
     ELSE a : a \in assets}

\* delete_asset_from_db: DELETE FROM assets WHERE id = ?
DeleteAssetRows(asset_id) == {a \in assets : a.id # asset_id}

\* generate_asset_keyboard: the same paging over the assets list
generate_asset_keyboard(list, pre, pg) ==
    LET start_index == pg * ITEMS_PER_PAGE
        end_index   == start_index + ITEMS_PER_PAGE
        shown       == PySlice(list, start_index, end_index)
        rows        == [i \in 1..Len(shown) |-> <<Button(pre, shown[i].id)>>]
        prev        == IF pg > 0
                       THEN <<Button(<<"nav">> \o pre, pg - 1)>> ELSE << >>
        next        == IF end_index < Len(list)
                       THEN <<Button(<<"nav">> \o pre, pg + 1)>> ELSE << >>
        nav_row     == prev \o next
    IN  IF nav_row # << >> THEN rows \o <<nav_row>> ELSE rows

otherTables == <<goals, savings, payments, payment_history, expenses, budgets>>

add_asset_start(u) ==
    /\ Route(u, Text("add asset")) = <<"add_asset", "add_asset_start">>
    /\ Open(u)
    /\ conv' = SetConv(u, "add_asset", "ASSET_NAME")
    /\ last' = Said(u, "add_asset_start", 0, {"Prompt"})
    /\ UNCHANGED <<dbVars, user_data, buttons, almost_count, pageVars>>

get_asset_name(u, t) ==
    /\ Route(u, Text(t)) = <<"add_asset", "get_asset_name">>
    /\ user_data' = Store(u, "asset_name", t)
    /\ conv' = SetConv(u, "add_asset", "ASSET_AMOUNT")
    /\ last' = Said(u, "get_asset_name", 0, {"Prompt"})
    /\ UNCHANGED <<dbVars, buttons, almost_count, pageVars>>

get_asset_amount(u, t) ==
    /\ Route(u, Text(t)) = <<"add_asset", "get_asset_amount">>
    /\ IF IsFloat(t)
       THEN /\ user_data' = Store(u, "asset_amount", float(t))
            /\ conv' = SetConv(u, "add_asset", "ASSET_CURRENCY")
            /\ last' = Said(u, "get_asset_amount", 0, {"Prompt"})
       ELSE \* ValueError
            /\ last' = Said(u, "get_asset_amount", 0, {"NotANumber"})
            /\ UNCHANGED <<user_data, conv>>
    /\ UNCHANGED <<dbVars, buttons, almost_count, pageVars>>

get_asset_currency(u, t) ==
    /\ Route(u, Text(t)) = <<"add_asset", "get_asset_currency">>
    /\ user_data' = Store(u, "asset_currency", upper(t))
    /\ conv' = SetConv(u, "add_asset", "ASSET_TYPE")
    /\ last' = Said(u, "get_asset_currency", 0, {"Prompt"})
    /\ UNCHANGED <<dbVars, buttons, almost_count, pageVars>>

AssetKeys == {"asset_name", "asset_amount", "asset_currency"}

\* the three reads of user_data come before the try: a KeyError leaves the
\* handler with nothing changed; error_handler tells the user of a bug
save_asset(u, t) ==
    /\ Route(u, Text(t)) = <<"add_asset", "save_asset">>
    /\ LET d == user_data[u]
           asset_type == lower(t)
       IN  IF ~ (AssetKeys \subseteq DOMAIN d)
           THEN /\ last' = Said(u, "save_asset", 0, {"Bug"})
                /\ UNCHANGED <<dbVars, user_data, conv>>
           ELSE LET existing == ExistingAsset(u, d["asset_name"], d["asset_currency"])
                IN  /\ IF existing # NoRow
                       THEN /\ existing.updated_at < MaxStamp
                            /\ assets' =
                                 {IF a.id = existing.id
                                  THEN [a EXCEPT !.amount = d["asset_amount"],
                                                 !.updated_at = @ + 1]
                                  ELSE a : a \in assets}
                            /\ last' = Said(u, "save_asset", existing.id, {"Updated"})
                            /\ UNCHANGED seq
                       ELSE /\ seq.assets < MaxAssets
                            /\ assets' = assets \cup
                                 {[id |-> seq.assets + 1, user_id |-> u,
                                   name |-> d["asset_name"],
                                   amount |-> d["asset_amount"],
                                   currency |-> d["asset_currency"],
                                   asset_type |-> asset_type,
                                   updated_at |-> 1]}
                            /\ seq' = [seq EXCEPT !.assets = @ + 1]
                            /\ last' = Said(u, "save_asset", seq.assets + 1, {"Added"})
                    /\ user_data' = Clear(u)
                    /\ conv' = SetConv(u, "add_asset", END)
                    /\ UNCHANGED otherTables
    /\ UNCHANGED <<buttons, almost_count, pageVars>>

\* an entry that sends the keyboard whatever the list holds
asset_list_start_unchecked(u, c, fn, pre, state) ==
    /\ buttons' = [buttons EXCEPT ![u] =
          @ \cup ButtonsOf(generate_asset_keyboard(get_user_assets(u), pre, 0))]
    /\ conv' = SetConv(u, c, state)
    /\ last' = Said(u, fn, 0, {"Keyboard"})
    /\ UNCHANGED <<dbVars, user_data, almost_count, pageVars>>

\* update_asset_start and delete_asset_start
asset_list_start(u, c, fn, pre, state) ==
    LET list == get_user_assets(u)
    IN  /\ IF list = << >>
           THEN /\ conv' = SetConv(u, c, END)
                /\ last' = Said(u, fn, 0, {"NothingToSelect"})
                /\ UNCHANGED buttons
           ELSE /\ buttons' = [buttons EXCEPT ![u] =
                       @ \cup ButtonsOf(generate_asset_keyboard(list, pre, 0))]
                /\ conv' = SetConv(u, c, state)
                /\ last' = Said(u, fn, 0, {"Keyboard"})
        /\ UNCHANGED <<dbVars, user_data, almost_count, pageVars>>

update_asset_start(u) ==
    /\ Route(u, Text("update asset")) = <<"update_asset", "update_asset_start">>
    /\ Open(u)
    /\ asset_list_start(u, "update_asset", "update_asset_start",
                        <<"update", "asset">>, "UPDATE_ASSET_SELECT")

delete_asset_start(u) ==
    /\ Route(u, Text("delete asset")) = <<"delete_asset", "delete_asset_start">>
    /\ Open(u)
    /\ asset_list_start(u, "delete_asset", "delete_asset_start",
                        <<"delete", "asset">>, "DELETE_ASSET_SELECT")

\* selected_asset_id is stored before the asset is looked up
select_asset_for_update(u, b) ==
    /\ b \in buttons[u] \/ IntFails(b)
    /\ Route(u, Click(b.pre, b.arg)) = <<"update_asset", "select_asset_for_update">>
    /\ IF IntFails(b)
       THEN Raises(u, "select_asset_for_update")
       ELSE /\ IF get_asset_by_id(b.arg) = NoRow
               THEN /\ user_data' = Clear(u)
                    /\ conv' = SetConv(u, "update_asset", END)
                    /\ last' = Said(u, "select_asset_for_update", b.arg, {"NotFound"})
               ELSE /\ user_data' = Store(u, "selected_asset_id", b.arg)
                    /\ conv' = SetConv(u, "update_asset", "UPDATE_ASSET_AMOUNT")
                    /\ last' = Said(u, "select_asset_for_update", b.arg, {"Prompt"})
            /\ UNCHANGED <<dbVars, buttons, almost_count, pageVars>>

\* a handler that takes the signed text as the amount and has no test of
\* its sign: "-d" is float("-d")
process_asset_update_signed(u, t) ==
    /\ Route(u, Text(t)) = <<"update_asset", "process_asset_update">>
    /\ LET d == user_data[u]
           amount_text == strip(t)
       IN  /\ Has(d, "selected_asset_id")
           /\ IsFloat(amount_text)
           /\ get_asset_by_id(d["selected_asset_id"]) # NoRow
           /\ get_asset_by_id(d["selected_asset_id"]).updated_at < MaxStamp
           /\ assets' = update_asset_amount(d["selected_asset_id"],
                                            float(amount_text), "add")
           /\ last' = Said(u, "process_asset_update", d["selected_asset_id"],
                           {"Updated"})
           /\ user_data' = Clear(u)
           /\ conv' = SetConv(u, "update_asset", END)
           /\ UNCHANGED <<otherTables, seq>>
    /\ UNCHANGED <<buttons, almost_count, pageVars>>

process_asset_update(u, t) ==
    /\ Route(u, Text(t)) = <<"update_asset", "process_asset_update">>
    /\ LET d == user_data[u]
           amount_text == strip(t)
           operation == IF startswith(amount_text, "-") THEN "subtract" ELSE "add"
           number == IF startswith(amount_text, "+") \/ startswith(amount_text, "-")
                     THEN AfterFirst(amount_text) ELSE amount_text
       IN  IF ~ Has(d, "selected_asset_id")
           THEN /\ last' = Said(u, "process_asset_update", 0, {"LostContext"})
                /\ user_data' = Clear(u)
                /\ conv' = SetConv(u, "update_asset", END)
                /\ UNCHANGED dbVars
           ELSE IF ~ IsFloat(number)
           THEN \* ValueError: stay in UPDATE_ASSET_AMOUNT
                /\ last' = Said(u, "process_asset_update", d["selected_asset_id"],
                                {"NotANumber"})
                /\ UNCHANGED <<dbVars, conv, user_data>>
           ELSE IF float(number) <= 0
           THEN /\ last' = Said(u, "process_asset_update", d["selected_asset_id"],
                                {"MustBePositive"})
                /\ UNCHANGED <<dbVars, conv, user_data>>
           ELSE IF get_asset_by_id(d["selected_asset_id"]) = NoRow
           THEN /\ last' = Said(u, "process_asset_update", d["selected_asset_id"],
                                {"NotFound"})
                /\ user_data' = Clear(u)
                /\ conv' = SetConv(u, "update_asset", END)
                /\ UNCHANGED dbVars
           ELSE /\ get_asset_by_id(d["selected_asset_id"]).updated_at < MaxStamp
                /\ assets' = update_asset_amount(d["selected_asset_id"],
                                                 float(number), operation)
                /\ last' = Said(u, "process_asset_update", d["selected_asset_id"],
                                {"Updated"})
                /\ user_data' = Clear(u)
                /\ conv' = SetConv(u, "update_asset", END)
                /\ UNCHANGED <<otherTables, seq>>
    /\ UNCHANGED <<buttons, almost_count, pageVars>>

\* confirm_asset_delete returns END on both branches and never touches
\* user_data
confirm_asset_delete(u, b) ==
    /\ b \in buttons[u] \/ IntFails(b)
    /\ Route(u, Click(b.pre, b.arg)) = <<"delete_asset", "confirm_asset_delete">>
    /\ IF IntFails(b)
       THEN Raises(u, "confirm_asset_delete")
       ELSE /\ IF get_asset_by_id(b.arg) # NoRow
               THEN /\ assets' = DeleteAssetRows(b.arg)
                    /\ last' = Said(u, "confirm_asset_delete", b.arg, {"Deleted"})
               ELSE /\ last' = Said(u, "confirm_asset_delete", b.arg, {"NotFound"})
                    /\ UNCHANGED assets
            /\ conv' = SetConv(u, "delete_asset", END)
            /\ UNCHANGED <<otherTables, seq, user_data, buttons, almost_count, pageVars>>

-----------------------------------------------------------------------------
(* Page navigation and the progress views of the selection flows.          *)

progress_start(u) ==
    /\ Route(u, Text("progress")) = <<"progress", "progress_start">>
    /\ Open(u)
    /\ paginated_list_start(u, "progress", "progress_start", <<"progress">>,
                            "PROGRESS_GOAL_SELECT")

\* show_goal_progress returns END on both branches and never touches
\* user_data
show_goal_progress(u, b) ==
    /\ b \in buttons[u] \/ IntFails(b)
    /\ Route(u, Click(b.pre, b.arg)) = <<"progress", "show_goal_progress">>
    /\ IF IntFails(b)
       THEN Raises(u, "show_goal_progress")
       ELSE /\ last' = Said(u, "show_goal_progress", b.arg,
                            IF get_goal_by_id(b.arg) = NoRow
                            THEN {"NotFound"} ELSE {"Progress"})
            /\ conv' = SetConv(u, "progress", END)
            /\ UNCHANGED <<dbVars, user_data, buttons, almost_count, pageVars>>

payment_progress_start(u) ==
    /\ Route(u, Text("payment progress")) =
          <<"payment_progress", "payment_progress_start">>
    /\ Open(u)
    /\ payment_list_start(u, "payment_progress", "payment_progress_start",
                          <<"payment", "progress">>, "PAYMENT_PROGRESS_SELECT")

show_payment_progress(u, b) ==
    /\ b \in buttons[u] \/ IntFails(b)
    /\ Route(u, Click(b.pre, b.arg)) = <<"payment_progress", "show_payment_progress">>
    /\ IF IntFails(b)
       THEN Raises(u, "show_payment_progress")
       ELSE /\ last' = Said(u, "show_payment_progress", b.arg,
                            IF get_payment_by_id(b.arg) = NoRow
                            THEN {"NotFound"} ELSE {"Progress"})
            /\ conv' = SetConv(u, "payment_progress", END)
            /\ UNCHANGED <<dbVars, user_data, buttons, almost_count, pageVars>>

\* data_payload = query.data[4:]; prefix, page_str = data_payload.rsplit('_', 1)
NavPrefix(b) == Tail(b.pre)

\* the message's keyboard is replaced by kb (edit_message_reply_markup): the
\* user now also sees the buttons of kb.  The handler returns None: the
\* dialogue keeps its state.
Rerender(u, b, fn, kb) ==
    /\ keyboard' = kb
    /\ prefix' = NavPrefix(b)
    /\ page' = b.arg
    /\ buttons' = [buttons EXCEPT ![u] = @ \cup ButtonsOf(kb)]
    /\ last' = Said(u, fn, 0, {"Keyboard"})
    /\ UNCHANGED <<dbVars, conv, user_data, almost_count, items>>

\* page = int(page_str) raised ValueError, caught by the handler: the text
\* of the message is replaced by "Error processing navigation. Please try
\* again." and the handler returns None
NavigationFails(u, fn) ==
    /\ last' = Said(u, fn, 0, {"TryAgain"})
    /\ UNCHANGED <<dbVars, chatVars, almost_count, pageVars>>

\* a navigation that takes the page of the event as a number of pages to
\* move from the page shown
navigate_menu_relative(u, b) ==
    /\ \E c \in Convs : Route(u, Click(b.pre, b.arg)) = <<c, "navigate_menu">>
    /\ keyboard' = generate_paginated_keyboard(get_user_goals_and_debts(u),
                                               NavPrefix(b), page + b.arg)
    /\ prefix' = NavPrefix(b)
    /\ page' = b.arg
    /\ buttons' = [buttons EXCEPT ![u] = @ \cup ButtonsOf(keyboard')]
    /\ last' = Said(u, "navigate_menu", 0, {"Keyboard"})
    /\ UNCHANGED <<dbVars, conv, user_data, almost_count, items>>

\* navigate_menu, in the states of the add, delete and progress dialogues
navigate_menu(u, b) ==
    /\ \E c \in Convs : Route(u, Click(b.pre, b.arg)) = <<c, "navigate_menu">>
    /\ IF IntFails(b)
       THEN NavigationFails(u, "navigate_menu")
       ELSE Rerender(u, b, "navigate_menu",
                     generate_paginated_keyboard(get_user_goals_and_debts(u),
                                                 NavPrefix(b), b.arg))

navigate_asset_menu(u, b) ==
    /\ Route(u, Click(b.pre, b.arg)) = <<"update_asset", "navigate_asset_menu">>
    /\ IF IntFails(b)
       THEN NavigationFails(u, "navigate_asset_menu")
       ELSE Rerender(u, b, "navigate_asset_menu",
                     generate_asset_keyboard(get_user_assets(u), NavPrefix(b),
                                             b.arg))

navigate_delete_asset_menu(u, b) ==
    /\ Route(u, Click(b.pre, b.arg)) =
          <<"delete_asset", "navigate_delete_asset_menu">>
    /\ IF IntFails(b)
       THEN NavigationFails(u, "navigate_delete_asset_menu")
       ELSE Rerender(u, b, "navigate_delete_asset_menu",
                     generate_asset_keyboard(get_user_assets(u), NavPrefix(b),
                                             b.arg))

-----------------------------------------------------------------------------
(* The goals and debts of two users: creation, contribution, deletion.     *)

NameTexts     == {"a", "b"}
TargetTexts   == {"100", "x"}
AmountTexts   == {"100", "95", "-5", "x"}
CurrencyTexts == {"usd"}

InitChat ==
    /\ conv = [u \in ALLOWED_USER_IDS |-> [c \in Convs |-> END]]
    /\ user_data = [u \in ALLOWED_USER_IDS |-> EmptyDict]
    /\ buttons = [u \in ALLOWED_USER_IDS |-> {}]
    /\ last = Said(0, "init", 0, {})
    /\ almost_count = EmptyDict

InitStore ==
    /\ goals = {} /\ savings = {}
    /\ payments = {} /\ payment_history = {}
    /\ expenses = {} /\ budgets = {}
    /\ assets = {}
    /\ seq = [goals |-> 0, savings |-> 0, payments |-> 0, payment_history |-> 0,
              expenses |-> 0, budgets |-> 0, assets |-> 0]

InitPage ==
    /\ items = << >> /\ page = 0 /\ prefix = << >> /\ keyboard = << >>

Init == InitStore /\ InitChat /\ InitPage

\* User 1 runs the dialogues; user 2, the other allowed user, erases.
Talker == CHOOSE u \in ALLOWED_USER_IDS : \A v \in ALLOWED_USER_IDS : u <= v

Next ==
    \/ new_goal_start(Talker)
    \/ \E t \in NameTexts : get_goal_name(Talker, t)
    \/ \E t \in TargetTexts : get_goal_amount(Talker, t)
    \/ \E t \in CurrencyTexts : get_goal_currency_and_save(Talker, t)
    \/ new_debt_start(Talker)
    \/ \E t \in NameTexts : get_debt_name(Talker, t)
    \/ \E t \in TargetTexts : get_debt_amount(Talker, t)
    \/ \E t \in CurrencyTexts : get_debt_currency_and_save(Talker, t)
    \/ add_start(Talker)
    \/ \E b \in buttons[Talker] : select_goal_for_adding(Talker, b)
    \/ \E t \in AmountTexts : get_amount_and_save(Talker, t)
    \/ delete_start(Talker)
    \/ \E b \in buttons[Talker] : confirm_delete(Talker, b)
    \/ cancel(Talker, "/cancel")
    \/ \E u \in ALLOWED_USER_IDS : erase_all(u)

Spec == Init /\ [][Next]_vars

-----------------------------------------------------------------------------
(* The payments of two users: creation, recorded payments, deletion.       *)

RecipientTexts  == {"r"}
PayTargetTexts  == {"100", "x"}
PayAmountTexts  == {"100", "-5", "x"}
FrequencyTexts  == {"weekly"}
CancelTexts     == {"cancel", "/cancel"}

NextPay ==
    \/ new_payment_start(Talker)
    \/ \E t \in NameTexts : get_payment_name(Talker, t)
    \/ \E t \in RecipientTexts : get_payment_recipient(Talker, t)
    \/ \E t \in PayTargetTexts : get_payment_target(Talker, t)
    \/ \E t \in CurrencyTexts : get_payment_currency(Talker, t)
    \/ \E t \in PayTargetTexts : get_payment_amount(Talker, t)
    \/ \E t \in FrequencyTexts : save_payment(Talker, t)
    \/ add_payment_start(Talker)
    \/ \E b \in buttons[Talker] : select_payment_for_adding(Talker, b)
    \/ \E t \in PayAmountTexts : get_payment_amount_and_save(Talker, t)
    \/ delete_payment_start(Talker)
    \/ \E b \in buttons[Talker] : confirm_payment_delete(Talker, b)
    \/ \E t \in CancelTexts : cancel(Talker, t)
    \/ \E u \in ALLOWED_USER_IDS : erase_all(u)

SpecPay == Init /\ [][NextPay]_vars

-----------------------------------------------------------------------------
(* The expenses and budgets of two users.  User 2 has set one budget;      *)
(* user 1 records expenses and sets budgets.                               *)

ExpenseTexts        == {"40", "-5", "x"}
BudgetTexts         == {"100", "-5", "x"}
CategoryTexts       == {"Food"}
ExpenseCurrencyTexts == {"usd"}
BudgetCurrencyTexts == {"usd", "eur"}
ReasonTexts         == {"r"}
PeriodTexts         == {"weekly"}

\* the store after user 2's dialogue: set budget, Food, 100, usd, weekly
InitStoreBudget ==
    /\ goals = {} /\ savings = {}
    /\ payments = {} /\ payment_history = {}
    /\ expenses = {}
    /\ assets = {}
    /\ budgets = {[id |-> 1, user_id |-> 2, category |-> "food", amount |-> 100,
                   currency |-> "USD", period |-> "weekly", current_spent |-> 0]}
    /\ seq = [goals |-> 0, savings |-> 0, payments |-> 0, payment_history |-> 0,
              expenses |-> 0, budgets |-> 1, assets |-> 0]

InitBudget == InitStoreBudget /\ InitChat /\ InitPage

NextBudget ==
    \/ add_expense_start(Talker)
    \/ \E t \in ExpenseTexts : get_expense_amount(Talker, t)
    \/ \E t \in ExpenseCurrencyTexts : get_expense_currency(Talker, t)
    \/ \E t \in CategoryTexts : get_expense_category(Talker, t)
    \/ \E t \in ReasonTexts : save_expense(Talker, t)
    \/ set_budget_start(Talker)
    \/ \E t \in CategoryTexts : get_budget_category(Talker, t)
    \/ \E t \in BudgetTexts : get_budget_amount(Talker, t)
    \/ \E t \in BudgetCurrencyTexts : get_budget_currency(Talker, t)
    \/ \E t \in PeriodTexts : save_budget(Talker, t)
    \/ \E t \in CancelTexts : cancel(Talker, t)
    \/ \E u \in ALLOWED_USER_IDS : erase_all(u)

SpecBudget == InitBudget /\ [][NextBudget]_vars

-----------------------------------------------------------------------------
(* The paginated keyboards as functions of the list, the prefix and the    *)
(* page: every list of up to MaxItems items, every page up to MaxPage.     *)

GoalPrefixes    == {<<"add", "to">>, <<"delete">>, <<"progress">>}
PaymentPrefixes == {<<"add", "payment">>, <<"delete", "payment">>,
                    <<"payment", "progress">>}

\* a list of n rows; the ids run against the list order
ItemList(n) == [i \in 1..n |-> [id |-> 2 * (n - i) + 1]]

InitPaged ==
    /\ InitStore /\ InitChat
    /\ items \in {ItemList(n) : n \in 0..MaxItems}
    /\ page \in 0..MaxPage
    /\ prefix \in GoalPrefixes \cup PaymentPrefixes
    /\ keyboard = << >>

\* reply_markup = generate_paginated_keyboard(goals, prefix=prefix, page=page)
ShowGoals ==
    /\ last.fn = "init"
    /\ prefix \in GoalPrefixes
    /\ keyboard' = generate_paginated_keyboard(items, prefix, page)
    /\ last' = Said(0, "generate_paginated_keyboard", 0, {"Keyboard"})
    /\ UNCHANGED <<dbVars, chatVars, almost_count, items, page, prefix>>

\* reply_markup = generate_payment_keyboard(payments, prefix=prefix, page=page)
ShowPayments ==
    /\ last.fn = "init"
    /\ prefix \in PaymentPrefixes
    /\ keyboard' = generate_payment_keyboard(items, prefix, page)
    /\ last' = Said(0, "generate_payment_keyboard", 0, {"Keyboard"})
    /\ UNCHANGED <<dbVars, chatVars, almost_count, items, page, prefix>>

\* navigate_menu on a click of Previous or Next: the page is the number the
\* button carries, and the keyboard is generated again
TurnPage(b) ==
    /\ last.fn \in {"generate_paginated_keyboard", "navigate_menu"}
    /\ b \in ButtonsOf(keyboard)
    /\ b.pre = <<"nav">> \o prefix
    /\ page' = b.arg
    /\ keyboard' = generate_paginated_keyboard(items, prefix, b.arg)
    /\ last' = Said(0, "navigate_menu", 0, {"Keyboard"})
    /\ UNCHANGED <<dbVars, chatVars, almost_count, items, prefix>>

NextPaged ==
    \/ ShowGoals
    \/ ShowPayments
    \/ \E b \in ButtonsOf(keyboard) : TurnPage(b)

SpecPaged == InitPaged /\ [][NextPaged]_vars

-----------------------------------------------------------------------------
(* The assets of two users: creation, signed updates, deletion.  User 2    *)
(* has added one asset; user 1 adds, updates and deletes.                  *)

AssetNameTexts     == {"a"}
AssetAmountTexts   == {"100", "250", "x"}
AssetCurrencyTexts == {"usd"}
AssetTypeTexts     == {"Cash"}
UpdateTexts        == {"+50", "50", " +50 ", "-1000", "0", "-0", "--5", "+-5",
                       "x", "+x"}

\* the store after user 2's dialogue: add asset, a, 100, usd, cash
InitStoreAsset ==
    /\ goals = {} /\ savings = {}
    /\ payments = {} /\ payment_history = {}
    /\ expenses = {} /\ budgets = {}
    /\ assets = {[id |-> 1, user_id |-> 2, name |-> "a", amount |-> 100,
                  currency |-> "USD", asset_type |-> "cash", updated_at |-> 1]}
    /\ seq = [goals |-> 0, savings |-> 0, payments |-> 0, payment_history |-> 0,
              expenses |-> 0, budgets |-> 0, assets |-> 1]

InitAsset == InitStoreAsset /\ InitChat /\ InitPage

NextAsset ==
    \/ add_asset_start(Talker)
    \/ \E t \in AssetNameTexts : get_asset_name(Talker, t)
    \/ \E t \in AssetAmountTexts : get_asset_amount(Talker, t)
    \/ \E t \in AssetCurrencyTexts : get_asset_currency(Talker, t)
    \/ \E t \in AssetTypeTexts : save_asset(Talker, t)
    \/ update_asset_start(Talker)
    \/ \E b \in buttons[Talker] : select_asset_for_update(Talker, b)
    \/ \E t \in UpdateTexts : process_asset_update(Talker, t)
    \/ delete_asset_start(Talker)
    \/ \E b \in buttons[Talker] : confirm_asset_delete(Talker, b)
    \/ cancel(Talker, "/cancel")
    \/ \E u \in ALLOWED_USER_IDS : erase_all(u)

SpecAsset == InitAsset /\ [][NextAsset]_vars

-----------------------------------------------------------------------------
(* A click no handler accepts.  main() adds no CallbackQueryHandler        *)
(* outside the conversations: the application drops the update, no code of *)
(* the bot runs, and the message keeps the keyboard it had.                *)

unhandled_callback(u, b) ==
    /\ b \in buttons[u]
    /\ Route(u, Click(b.pre, b.arg)) = <<"top", "none">>
    /\ last' = Said(u, "none", b.arg, {})
    /\ UNCHANGED <<dbVars, chatVars, almost_count, pageVars>>

-----------------------------------------------------------------------------
(* Lists longer than a page.  User 1 has MaxList goals and MaxList assets  *)
(* and walks the pages of the selection keyboards while rows are deleted.  *)

\* the store after MaxList new goal dialogues and MaxList add asset
\* dialogues of user 1
InitStoreNav ==
    /\ goals = {[id |-> i, user_id |-> Talker, name |-> <<"g", i>>,
                 target_amount |-> 100, current_amount |-> 0,
                 currency |-> "USD", type |-> "goal",
                 notified_90_percent |-> 0] : i \in 1..MaxList}
    /\ assets = {[id |-> i, user_id |-> Talker, name |-> "a", amount |-> 100,
                  currency |-> <<"C", i>>, asset_type |-> "cash",
                  updated_at |-> 1] : i \in 1..MaxList}
    /\ savings = {}
    /\ payments = {} /\ payment_history = {}
    /\ expenses = {} /\ budgets = {}
    /\ seq = [goals |-> MaxList, savings |-> 0, payments |-> 0,
              payment_history |-> 0, expenses |-> 0, budgets |-> 0,
              assets |-> MaxList]

InitNav == InitStoreNav /\ InitChat /\ InitPage

\* the page events a client can send: those of the buttons it was shown,
\* and callback data it makes up, with a page below zero
NavEvents(u) ==
    {b \in buttons[u] : Head(b.pre) = "nav"} \cup
    {Button(<<"nav">> \o pre, 0 - 1) :
        pre \in {<<"delete">>, <<"update", "asset">>, <<"delete", "asset">>}}

\* the rows user 1 deletes are the last of each list
LastButtons(u) == {b \in buttons[u] : b.arg = MaxList}

NextNav ==
    \/ delete_start(Talker)
    \/ \E b \in LastButtons(Talker) : confirm_delete(Talker, b)
    \/ \E b \in NavEvents(Talker) : navigate_menu(Talker, b)
    \/ update_asset_start(Talker)
    \/ \E b \in NavEvents(Talker) : navigate_asset_menu(Talker, b)
    \/ \E b \in LastButtons(Talker) : select_asset_for_update(Talker, b)
    \/ delete_asset_start(Talker)
    \/ \E b \in NavEvents(Talker) : navigate_delete_asset_menu(Talker, b)
    \/ \E u \in ALLOWED_USER_IDS : erase_all(u)

SpecNav == InitNav /\ [][NextNav]_vars

-----------------------------------------------------------------------------
(* The eight selection flows over short lists.  User 1 has one goal, one   *)
(* payment and one asset; either user may erase everything.                *)

\* the store after one new goal, one new payment and one add asset dialogue
\* of user 1
InitStoreSelect ==
    /\ goals = {[id |-> 1, user_id |-> Talker, name |-> "a",
                 target_amount |-> 100, current_amount |-> 0,
                 currency |-> "USD", type |-> "goal",
                 notified_90_percent |-> 0]}
    /\ payments = {[id |-> 1, user_id |-> Talker, name |-> "a",
                    target_amount |-> 100, current_amount |-> 0,
                    currency |-> "USD", payment_amount |-> 100,
                    payment_frequency |-> "weekly", recipient |-> "r"]}
    /\ assets = {[id |-> 1, user_id |-> Talker, name |-> "a", amount |-> 100,
                  currency |-> "USD", asset_type |-> "cash", updated_at |-> 1]}
    /\ savings = {} /\ payment_history = {}
    /\ expenses = {} /\ budgets = {}
    /\ seq = [goals |-> 1, savings |-> 0, payments |-> 1, payment_history |-> 0,
              expenses |-> 0, budgets |-> 0, assets |-> 1]

InitSelect == InitStoreSelect /\ InitChat /\ InitPage

NextSelect ==
    \/ add_start(Talker)
    \/ \E b \in buttons[Talker] : select_goal_for_adding(Talker, b)
    \/ delete_start(Talker)
    \/ \E b \in buttons[Talker] : confirm_delete(Talker, b)
    \/ progress_start(Talker)
    \/ \E b \in buttons[Talker] : show_goal_progress(Talker, b)
    \/ add_payment_start(Talker)
    \/ \E b \in buttons[Talker] : select_payment_for_adding(Talker, b)
    \/ payment_progress_start(Talker)
    \/ \E b \in buttons[Talker] : show_payment_progress(Talker, b)
    \/ delete_payment_start(Talker)
    \/ \E b \in buttons[Talker] : confirm_payment_delete(Talker, b)
    \/ update_asset_start(Talker)
    \/ \E b \in buttons[Talker] : select_asset_for_update(Talker, b)
    \/ delete_asset_start(Talker)
    \/ \E b \in buttons[Talker] : confirm_asset_delete(Talker, b)
    \/ \E u \in ALLOWED_USER_IDS : erase_all(u)

SpecSelect == InitSelect /\ [][NextSelect]_vars

-----------------------------------------------------------------------------
(* Names.  User 1 creates goals, debts and payments named "a" or "b",      *)
(* from an empty store (SpecNames) and in a store where user 2 has the     *)
(* goal "b" and the payment "b" (SpecOwners).                              *)

\* the store after user 2's new goal and new payment dialogues
InitStoreOwners ==
    /\ goals = {[id |-> 1, user_id |-> 2, name |-> "b",
                 target_amount |-> 100, current_amount |-> 0,
                 currency |-> "USD", type |-> "goal",
                 notified_90_percent |-> 0]}
    /\ payments = {[id |-> 1, user_id |-> 2, name |-> "b",
                    target_amount |-> 100, current_amount |-> 0,
                    currency |-> "USD", payment_amount |-> 100,
                    payment_frequency |-> "weekly", recipient |-> "r"]}
    /\ assets = {} /\ savings = {} /\ payment_history = {}
    /\ expenses = {} /\ budgets = {}
    /\ seq = [goals |-> 1, savings |-> 0, payments |-> 1, payment_history |-> 0,
              expenses |-> 0, budgets |-> 0, assets |-> 0]

InitOwners == InitStoreOwners /\ InitChat /\ InitPage

OneNumberTexts == {"100"}

NextNames ==
    \/ new_goal_start(Talker)
    \/ \E t \in NameTexts : get_goal_name(Talker, t)
    \/ \E t \in OneNumberTexts : get_goal_amount(Talker, t)
    \/ \E t \in CurrencyTexts : get_goal_currency_and_save(Talker, t)
    \/ new_debt_start(Talker)
    \/ \E t \in NameTexts : get_debt_name(Talker, t)
    \/ \E t \in OneNumberTexts : get_debt_amount(Talker, t)
    \/ \E t \in CurrencyTexts : get_debt_currency_and_save(Talker, t)
    \/ new_payment_start(Talker)
    \/ \E t \in NameTexts : get_payment_name(Talker, t)
    \/ \E t \in RecipientTexts : get_payment_recipient(Talker, t)
    \/ \E t \in OneNumberTexts : get_payment_target(Talker, t)
    \/ \E t \in CurrencyTexts : get_payment_currency(Talker, t)
    \/ \E t \in OneNumberTexts : get_payment_amount(Talker, t)
    \/ \E t \in FrequencyTexts : save_payment(Talker, t)

SpecNames == Init /\ [][NextNames]_vars

SpecOwners == InitOwners /\ [][NextNames]_vars

-----------------------------------------------------------------------------
(* Every dialogue up to its last prompt, and the cancel command.  User 1   *)
(* has one goal, one payment and one asset and has been shown each         *)
(* selection keyboard before.                                              *)

OneNameTexts == {"a"}

\* the first page of each selection keyboard of user u
ShownKeyboards(u) ==
    UNION ( {ButtonsOf(generate_paginated_keyboard(get_user_goals_and_debts(u), pre, 0)) :
                pre \in GoalPrefixes}
            \cup
            {ButtonsOf(generate_payment_keyboard(get_user_payments(u), pre, 0)) :
                pre \in PaymentPrefixes}
            \cup
            {ButtonsOf(generate_asset_keyboard(get_user_assets(u), pre, 0)) :
                pre \in {<<"update", "asset">>, <<"delete", "asset">>}} )

\* the chat after user 1 opened and cancelled each selection dialogue once
InitChatShown ==
    /\ conv = [u \in ALLOWED_USER_IDS |-> [c \in Convs |-> END]]
    /\ user_data = [u \in ALLOWED_USER_IDS |-> EmptyDict]
    /\ buttons = [u \in ALLOWED_USER_IDS |->
                    IF u = Talker THEN ShownKeyboards(u) ELSE {}]
    /\ last = Said(0, "init", 0, {})
    /\ almost_count = EmptyDict

InitCancel == InitStoreSelect /\ InitChatShown /\ InitPage

NextCancel ==
    \/ new_goal_start(Talker)
    \/ \E t \in OneNameTexts : get_goal_name(Talker, t)
    \/ \E t \in OneNumberTexts : get_goal_amount(Talker, t)
    \/ new_debt_start(Talker)
    \/ \E t \in OneNameTexts : get_debt_name(Talker, t)
    \/ \E t \in OneNumberTexts : get_debt_amount(Talker, t)
    \/ add_start(Talker)
    \/ \E b \in buttons[Talker] : select_goal_for_adding(Talker, b)
    \/ delete_start(Talker)
    \/ progress_start(Talker)
    \/ add_expense_start(Talker)
    \/ \E t \in OneNumberTexts : get_expense_amount(Talker, t)
    \/ \E t \in ExpenseCurrencyTexts : get_expense_currency(Talker, t)
    \/ \E t \in CategoryTexts : get_expense_category(Talker, t)
    \/ set_budget_start(Talker)
    \/ \E t \in CategoryTexts : get_budget_category(Talker, t)
    \/ \E t \in OneNumberTexts : get_budget_amount(Talker, t)
    \/ \E t \in ExpenseCurrencyTexts : get_budget_currency(Talker, t)
    \/ add_asset_start(Talker)
    \/ \E t \in OneNameTexts : get_asset_name(Talker, t)
    \/ \E t \in OneNumberTexts : get_asset_amount(Talker, t)
    \/ \E t \in AssetCurrencyTexts : get_asset_currency(Talker, t)
    \/ update_asset_start(Talker)
    \/ \E b \in buttons[Talker] : select_asset_for_update(Talker, b)
    \/ delete_asset_start(Talker)
    \/ new_payment_start(Talker)
    \/ \E t \in OneNameTexts : get_payment_name(Talker, t)
    \/ \E t \in RecipientTexts : get_payment_recipient(Talker, t)
    \/ \E t \in OneNumberTexts : get_payment_target(Talker, t)
    \/ \E t \in CurrencyTexts : get_payment_currency(Talker, t)
    \/ \E t \in OneNumberTexts : get_payment_amount(Talker, t)
    \/ add_payment_start(Talker)
    \/ \E b \in buttons[Talker] : select_payment_for_adding(Talker, b)
    \/ payment_progress_start(Talker)
    \/ delete_payment_start(Talker)
    \/ cancel(Talker, "/cancel")

SpecCancel == InitCancel /\ [][NextCancel]_vars

-----------------------------------------------------------------------------
(* The two ledgers side by side.  User 1 has two goals and one payment,    *)
(* records amounts on them and deletes them; either user may erase.        *)

LedgerTexts == {"40"}

\* the store after two new goal dialogues and one new payment dialogue of
\* user 1
InitStoreLedger ==
    /\ goals = {[id |-> i, user_id |-> Talker, name |-> <<"g", i>>,
                 target_amount |-> 100, current_amount |-> 0,
                 currency |-> "USD", type |-> "goal",
                 notified_90_percent |-> 0] : i \in 1..MaxGoals}
    /\ payments = {[id |-> 1, user_id |-> Talker, name |-> "a",
                    target_amount |-> 100, current_amount |-> 0,
                    currency |-> "USD", payment_amount |-> 100,
                    payment_frequency |-> "weekly", recipient |-> "r"]}
    /\ savings = {} /\ payment_history = {}
    /\ expenses = {} /\ budgets = {} /\ assets = {}
    /\ seq = [goals |-> MaxGoals, savings |-> 0, payments |-> 1,
              payment_history |-> 0, expenses |-> 0, budgets |-> 0, assets |-> 0]

InitLedger == InitStoreLedger /\ InitChat /\ InitPage

NextLedger ==
    \/ add_start(Talker)
    \/ \E b \in buttons[Talker] : select_goal_for_adding(Talker, b)
    \/ \E t \in LedgerTexts : get_amount_and_save(Talker, t)
    \/ delete_start(Talker)
    \/ \E b \in buttons[Talker] : confirm_delete(Talker, b)
    \/ add_payment_start(Talker)
    \/ \E b \in buttons[Talker] : select_payment_for_adding(Talker, b)
    \/ \E t \in LedgerTexts : get_payment_amount_and_save(Talker, t)
    \/ delete_payment_start(Talker)
    \/ \E b \in buttons[Talker] : confirm_payment_delete(Talker, b)
    \/ \E u \in ALLOWED_USER_IDS : erase_all(u)

SpecLedger == InitLedger /\ [][NextLedger]_vars

-----------------------------------------------------------------------------
(* The word the manual gives for aborting, typed as a plain message in     *)
(* the new goal, new debt and new payment dialogues.                       *)

ManualNameTexts == {"a", "cancel"}

NextManual ==
    \/ new_goal_start(Talker)
    \/ \E t \in ManualNameTexts : get_goal_name(Talker, t)
    \/ \E t \in OneNumberTexts : get_goal_amount(Talker, t)
    \/ \E t \in CurrencyTexts : get_goal_currency_and_save(Talker, t)
    \/ new_debt_start(Talker)
    \/ \E t \in ManualNameTexts : get_debt_name(Talker, t)
    \/ \E t \in OneNumberTexts : get_debt_amount(Talker, t)
    \/ \E t \in CurrencyTexts : get_debt_currency_and_save(Talker, t)
    \/ new_payment_start(Talker)
    \/ \E t \in ManualNameTexts : get_payment_name(Talker, t)
    \/ \E t \in RecipientTexts : get_payment_recipient(Talker, t)
    \/ \E t \in OneNumberTexts : get_payment_target(Talker, t)
    \/ \E t \in CurrencyTexts : get_payment_currency(Talker, t)
    \/ \E t \in OneNumberTexts : get_payment_amount(Talker, t)
    \/ \E t \in FrequencyTexts : save_payment(Talker, t)
    \/ \E t \in CancelTexts : cancel(Talker, t)

SpecManual == Init /\ [][NextManual]_vars

-----------------------------------------------------------------------------
(* Target amounts.  User 1 creates goals, debts and payments, and answers  *)
(* the "how much" prompt with a positive number, zero or a negative one.   *)

SignedTargetTexts == {"100", "0", "-5"}

NextTargets ==
    \/ new_goal_start(Talker)
    \/ \E t \in NameTexts : get_goal_name(Talker, t)
    \/ \E t \in SignedTargetTexts : get_goal_amount(Talker, t)
    \/ \E t \in CurrencyTexts : get_goal_currency_and_save(Talker, t)
    \/ new_debt_start(Talker)
    \/ \E t \in OneNameTexts : get_debt_name(Talker, t)
    \/ \E t \in SignedTargetTexts : get_debt_amount(Talker, t)
    \/ \E t \in CurrencyTexts : get_debt_currency_and_save(Talker, t)
    \/ new_payment_start(Talker)
    \/ \E t \in OneNameTexts : get_payment_name(Talker, t)
    \/ \E t \in RecipientTexts : get_payment_recipient(Talker, t)
    \/ \E t \in SignedTargetTexts : get_payment_target(Talker, t)
    \/ \E t \in CurrencyTexts : get_payment_currency(Talker, t)
    \/ \E t \in OneNumberTexts : get_payment_amount(Talker, t)
    \/ \E t \in FrequencyTexts : save_payment(Talker, t)

SpecTargets == Init /\ [][NextTargets]_vars

-----------------------------------------------------------------------------
(* Expenses against a budget of user 1, with the two things that can go    *)
(* wrong after the expense is committed: the UPDATE of the budget raises,  *)
(* or Telegram rejects the reply because of the reason's text.             *)

FaultExpenseTexts == {"40", "50"}
FaultReasonTexts  == {"r", "<3"}

\* the store after user 1's dialogue: set budget, Food, 100, usd, weekly
InitStoreFaults ==
    /\ goals = {} /\ savings = {}
    /\ payments = {} /\ payment_history = {}
    /\ expenses = {}
    /\ assets = {}
    /\ budgets = {[id |-> 1, user_id |-> Talker, category |-> "food",
                   amount |-> 100, currency |-> "USD", period |-> "weekly",
                   current_spent |-> 0]}
    /\ seq = [goals |-> 0, savings |-> 0, payments |-> 0, payment_history |-> 0,
              expenses |-> 0, budgets |-> 1, assets |-> 0]

InitFaults == InitStoreFaults /\ InitChat /\ InitPage

NextFaults ==
    \/ add_expense_start(Talker)
    \/ \E t \in FaultExpenseTexts : get_expense_amount(Talker, t)
    \/ \E t \in ExpenseCurrencyTexts : get_expense_currency(Talker, t)
    \/ \E t \in CategoryTexts : get_expense_category(Talker, t)
    \/ \E t \in FaultReasonTexts : save_expense(Talker, t)
    \/ \E t \in FaultReasonTexts : save_expense_update_raises(Talker, t)

SpecFaults == InitFaults /\ [][NextFaults]_vars

-----------------------------------------------------------------------------
(* Goals and payments longer than a page.  User 1 has MaxList goals and    *)
(* MaxList payments, opens the add and the add payment selectors and       *)
(* clicks what the keyboards show.                                         *)

PayNames == <<"a", "b", "c", "d", "e", "f">>

\* the store after MaxList new goal and MaxList new payment dialogues of
\* user 1
InitStorePayNav ==
    /\ goals = {[id |-> i, user_id |-> Talker, name |-> <<"g", i>>,
                 target_amount |-> 100, current_amount |-> 0,
                 currency |-> "USD", type |-> "goal",
                 notified_90_percent |-> 0] : i \in 1..MaxList}
    /\ payments = {[id |-> i, user_id |-> Talker, name |-> PayNames[i],
                    target_amount |-> 100, current_amount |-> 0,
                    currency |-> "USD", payment_amount |-> 100,
                    payment_frequency |-> "weekly", recipient |-> "r"] :
                      i \in 1..MaxList}
    /\ savings = {} /\ payment_history = {}
    /\ expenses = {} /\ budgets = {} /\ assets = {}
    /\ seq = [goals |-> MaxList, savings |-> 0, payments |-> MaxList,
              payment_history |-> 0, expenses |-> 0, budgets |-> 0, assets |-> 0]

InitPayNav == InitStorePayNav /\ InitChat /\ InitPage

NextPayNav ==
    \/ add_start(Talker)
    \/ \E b \in buttons[Talker] : navigate_menu(Talker, b)
    \/ \E b \in buttons[Talker] : select_goal_for_adding(Talker, b)
    \/ add_payment_start(Talker)
    \/ \E b \in buttons[Talker] : select_payment_for_adding(Talker, b)
    \/ \E b \in buttons[Talker] : unhandled_callback(Talker, b)
    \/ cancel(Talker, "/cancel")

SpecPayNav == InitPayNav /\ [][NextPayNav]_vars

-----------------------------------------------------------------------------
(* Records of two owners.  User 2 owns goal 1; user 1 owns goal 2,         *)
(* payment 1 and asset 1, and runs the selection dialogues, clicking the   *)
(* buttons the keyboards show.                                             *)

\* the store after user 2's new goal dialogue and user 1's new goal, new
\* payment and add asset dialogues
InitStoreForeign ==
    /\ goals = {[id |-> 1, user_id |-> 2, name |-> "a",
                 target_amount |-> 100, current_amount |-> 0,
                 currency |-> "USD", type |-> "goal",
                 notified_90_percent |-> 0],
                [id |-> 2, user_id |-> Talker, name |-> "b",
                 target_amount |-> 100, current_amount |-> 0,
                 currency |-> "USD", type |-> "goal",
                 notified_90_percent |-> 0]}
    /\ payments = {[id |-> 1, user_id |-> Talker, name |-> "a",
                    target_amount |-> 100, current_amount |-> 0,
                    currency |-> "USD", payment_amount |-> 100,
                    payment_frequency |-> "weekly", recipient |-> "r"]}
    /\ assets = {[id |-> 1, user_id |-> Talker, name |-> "a", amount |-> 100,
                  currency |-> "USD", asset_type |-> "cash", updated_at |-> 1]}
    /\ savings = {} /\ payment_history = {}
    /\ expenses = {} /\ budgets = {}
    /\ seq = [goals |-> 2, savings |-> 0, payments |-> 1, payment_history |-> 0,
              expenses |-> 0, budgets |-> 0, assets |-> 1]

InitForeign == InitStoreForeign /\ InitChat /\ InitPage

NextForeign ==
    \/ add_start(Talker)
    \/ \E b \in buttons[Talker] : select_goal_for_adding(Talker, b)
    \/ \E t \in LedgerTexts : get_amount_and_save(Talker, t)
    \/ delete_start(Talker)
    \/ \E b \in buttons[Talker] : confirm_delete(Talker, b)
    \/ delete_payment_start(Talker)
    \/ \E b \in buttons[Talker] : confirm_payment_delete(Talker, b)
    \/ delete_asset_start(Talker)
    \/ \E b \in buttons[Talker] : confirm_asset_delete(Talker, b)
    \/ cancel(Talker, "/cancel")

SpecForeign == InitForeign /\ [][NextForeign]_vars

-----------------------------------------------------------------------------
(* The expense reports.  User 1 records expenses, from an empty store, and *)
(* asks for the report and the comparison.                                 *)

NextReport ==
    \/ add_expense_start(Talker)
    \/ \E t \in FaultExpenseTexts \cup ExpenseTexts : get_expense_amount(Talker, t)
    \/ \E t \in ExpenseCurrencyTexts : get_expense_currency(Talker, t)
    \/ \E t \in CategoryTexts : get_expense_category(Talker, t)
    \/ \E t \in ReasonTexts : save_expense(Talker, t)
    \/ expense_report(Talker)
    \/ expense_compare(Talker)
    \/ cancel(Talker, "/cancel")

SpecReport == Init /\ [][NextReport]_vars

-----------------------------------------------------------------------------
(* Callback data a client makes up.  User 1 has one goal, one payment and  *)
(* one asset, has been shown each keyboard, and sends the data of those    *)
(* buttons and data that ends in a token that is no integer.               *)

AssetPrefixes == {<<"update", "asset">>, <<"delete", "asset">>}

\* "<prefix>_x" for every selection prefix, "nav_<prefix>_x" for every
\* prefix whose dialogue registers a navigation handler
GarbledEvents ==
    {Garbled(pre, "x") : pre \in GoalPrefixes \cup PaymentPrefixes \cup AssetPrefixes}
    \cup
    {Garbled(<<"nav">> \o pre, "x") : pre \in GoalPrefixes \cup AssetPrefixes}

\* the events of user u that are not page events, and those that are
SelectEvents(u) == {b \in buttons[u] \cup GarbledEvents : Head(b.pre) # "nav"}
PageEvents(u)   == {b \in buttons[u] \cup GarbledEvents : Head(b.pre) = "nav"}

InitGarbled == InitStoreSelect /\ InitChatShown /\ InitPage

NextGarbled ==
    \/ add_start(Talker)
    \/ \E b \in SelectEvents(Talker) : select_goal_for_adding(Talker, b)
    \/ delete_start(Talker)
    \/ \E b \in SelectEvents(Talker) : confirm_delete(Talker, b)
    \/ progress_start(Talker)
    \/ \E b \in SelectEvents(Talker) : show_goal_progress(Talker, b)
    \/ \E b \in PageEvents(Talker) : navigate_menu(Talker, b)
    \/ add_payment_start(Talker)
    \/ \E b \in SelectEvents(Talker) : select_payment_for_adding(Talker, b)
    \/ payment_progress_start(Talker)
    \/ \E b \in SelectEvents(Talker) : show_payment_progress(Talker, b)
    \/ delete_payment_start(Talker)
    \/ \E b \in SelectEvents(Talker) : confirm_payment_delete(Talker, b)
    \/ update_asset_start(Talker)
    \/ \E b \in SelectEvents(Talker) : select_asset_for_update(Talker, b)
    \/ \E b \in PageEvents(Talker) : navigate_asset_menu(Talker, b)
    \/ delete_asset_start(Talker)
    \/ \E b \in SelectEvents(Talker) : confirm_asset_delete(Talker, b)
    \/ \E b \in PageEvents(Talker) : navigate_delete_asset_menu(Talker, b)

SpecGarbled == InitGarbled /\ [][NextGarbled]_vars

-----------------------------------------------------------------------------
(* Properties of the goals and debts, checked under Spec.                  *)

LedgerOf(goal_id) == {s \in savings : s.goal_id = goal_id}

\* C1: every goal or debt has current_amount equal to the sum of the
\* amounts of its own savings rows, whatever creations, contributions,
\* deletions and erasures came before.
C1_CurrentIsLedgerSum ==
    \A g \in goals : g.current_amount = SumAmounts(LedgerOf(g.id))

\* two contributions to one target, and a non-zero total
C1_Witness ==
    \E g \in goals :
        /\ Cardinality(LedgerOf(g.id)) = 2
        /\ g.current_amount # 0
        /\ last.fn = "get_amount_and_save"
        /\ last.id = g.id

\* the step is a numeric amount given for a selected target that is gone
AmountForMissingTarget(u) ==
    /\ last'.fn = "get_amount_and_save"
    /\ last'.user = u
    /\ last'.msgs # {"NotANumber"}
    /\ conv[u]["add"] = "ADD_SAVINGS_AMOUNT"
    /\ Has(user_data[u], "selected_goal_id")
    /\ ~ \E g \in goals : g.id = user_data[u]["selected_goal_id"]

\* C2: when the selected target was deleted before the amount arrives, the
\* amount step reports a problem, adds no ledger row, changes no
\* current_amount, clears the session data and ends the dialogue.
C2_MissingTargetNothingWritten ==
    [][\A u \in ALLOWED_USER_IDS :
          AmountForMissingTarget(u) =>
              /\ last'.msgs = {"Unexpected"}
              /\ savings' = savings
              /\ goals' = goals
              /\ user_data'[u] = EmptyDict
              /\ conv'[u]["add"] = END]_vars

\* an amount was given for a target that a deletion had removed
C2_Witness ==
    /\ last.fn = "get_amount_and_save"
    /\ last.msgs = {"Unexpected"}
    /\ last.id # 0
    /\ ~ \E g \in goals : g.id = last.id

\* the step is a recorded contribution to the row h of goals'
Contributed(h) ==
    /\ last'.fn = "get_amount_and_save"
    /\ "Recorded" \in last'.msgs
    /\ last'.id = h.id

\* progress_percent of a row, against a threshold (0 when target <= 0)
AtLeastPercent(h, pct) ==
    h.target_amount > 0 /\ h.current_amount * 100 >= pct * h.target_amount

\* C4: the "almost there" alert goes out at most once per goal: on a
\* contribution that leaves a goal's progress at 90 percent or more and
\* under 100 percent while its flag is unset, and only then; that
\* contribution sets the flag, and nothing resets it.
C4_AlmostThereOnce ==
    [][/\ \A k \in DOMAIN almost_count' : almost_count'[k] <= 1
       /\ \A g \in goals : \A h \in goals' :
             (h.id = g.id /\ g.notified_90_percent = 1) => h.notified_90_percent = 1
       /\ \A h \in goals' :
             Contributed(h) =>
                /\ ("AlmostThere" \in last'.msgs) <=>
                      /\ h.type = "goal"
                      /\ AtLeastPercent(h, 90)
                      /\ ~ AtLeastPercent(h, 100)
                      /\ RowById(goals, h.id).notified_90_percent = 0
                /\ ("AlmostThere" \in last'.msgs) => h.notified_90_percent = 1]_vars

\* a later contribution leaves the flagged goal in the band again, silently
C4_Witness ==
    \E g \in goals :
        /\ last.fn = "get_amount_and_save"
        /\ last.id = g.id
        /\ last.msgs = {"Recorded"}
        /\ g.type = "goal"
        /\ g.notified_90_percent = 1
        /\ AtLeastPercent(g, 90) /\ ~ AtLeastPercent(g, 100)
        /\ Has(almost_count, g.id) /\ almost_count[g.id] = 1
        /\ Cardinality(LedgerOf(g.id)) = 2

\* C5: a contribution that leaves a goal's progress at 100 percent or more
\* sends the "reached" alert, every time; it sends no "almost there" alert
\* and leaves the flag as it was.
C5_GoalReachedEveryTime ==
    [][\A h \in goals' :
          (Contributed(h) /\ h.type = "goal" /\ AtLeastPercent(h, 100)) =>
             /\ "GoalReached" \in last'.msgs
             /\ "AlmostThere" \notin last'.msgs
             /\ h.notified_90_percent = RowById(goals, h.id).notified_90_percent]_vars

\* the goal was reached by its first contribution and again by its second
C5_Witness ==
    \E g \in goals :
        /\ last.fn = "get_amount_and_save"
        /\ last.id = g.id
        /\ "GoalReached" \in last.msgs
        /\ g.type = "goal"
        /\ g.notified_90_percent = 0
        /\ Cardinality(LedgerOf(g.id)) = 2
        /\ \A r \in LedgerOf(g.id) : r.amount >= g.target_amount

\* C6: a contribution that leaves a debt's progress at 100 percent or more
\* sends the "cleared" alert, every time; a debt never gets the "almost
\* there" alert and its flag stays unset.
C6_DebtClearedNoAlmost ==
    [][\A h \in goals' :
          /\ h.type = "debt" => h.notified_90_percent = 0
          /\ (Contributed(h) /\ h.type = "debt") =>
                /\ "AlmostThere" \notin last'.msgs
                /\ ("DebtCleared" \in last'.msgs) <=> AtLeastPercent(h, 100)]_vars

\* a debt whose first payment left it in the 90 percent band, now cleared
C6_Witness ==
    \E g \in goals :
        /\ last.fn = "get_amount_and_save"
        /\ last.id = g.id
        /\ "DebtCleared" \in last.msgs
        /\ g.type = "debt"
        /\ g.notified_90_percent = 0
        /\ \E r, q \in LedgerOf(g.id) :
              /\ r.id < q.id
              /\ r.amount * 100 >= 90 * g.target_amount
              /\ r.amount < g.target_amount

-----------------------------------------------------------------------------
(* Properties of the payments, checked under SpecPay.                      *)

HistoryOf(payment_id) == {h \in payment_history : h.payment_id = payment_id}

\* C3: every payment has current_amount equal to the sum of the amounts of
\* its own payment_history rows, whatever creations, recorded payments,
\* deletions and erasures came before.
C3_PaymentCurrentIsHistorySum ==
    \A p \in payments : p.current_amount = SumAmounts(HistoryOf(p.id))

\* two payments recorded against one tracker, and a non-zero total
C3_Witness ==
    \E p \in payments :
        /\ Cardinality(HistoryOf(p.id)) = 2
        /\ p.current_amount # 0
        /\ last.fn = "get_payment_amount_and_save"
        /\ last.id = p.id

-----------------------------------------------------------------------------
(* Properties of the expenses and budgets, checked under SpecBudget.       *)

\* the step records an expense
ExpenseRecorded ==
    /\ last'.fn = "save_expense"
    /\ "Recorded" \in last'.msgs

\* the expense the step recorded
NewExpense == RowById(expenses', last'.id)

\* spent / amount * 100 >= pct, for amount # 0
RatioAtLeast(spent, amount, pct) ==
    IF amount > 0 THEN spent * 100 >= pct * amount
                  ELSE spent * 100 <= pct * amount

\* C7: after a recorded expense that matches a budget on (owner, category,
\* currency), the alert follows spent/amount*100 with the incremented
\* current_spent: "exceeded" at 100 or more, "warning" at 80 or more and
\* under 100, no alert otherwise.
C7_AlertFromRatio ==
    [][ExpenseRecorded =>
          \A b \in MatchingBudgets(budgets', NewExpense.user_id,
                                   NewExpense.category, NewExpense.currency) :
              b.amount # 0 =>
                 /\ ("BudgetExceeded" \in last'.msgs) <=>
                       RatioAtLeast(b.current_spent, b.amount, 100)
                 /\ ("BudgetWarning" \in last'.msgs) <=>
                       /\ RatioAtLeast(b.current_spent, b.amount, 80)
                       /\ ~ RatioAtLeast(b.current_spent, b.amount, 100)]_vars

\* C8: a recorded expense adds its amount to current_spent of exactly the
\* budget with the expense's (owner, category, currency), of which there
\* is at most one; with no such budget the expense is still recorded, no
\* budget row changes and no alert is sent.
C8_ExactlyTheMatchingBudget ==
    [][ExpenseRecorded =>
          LET e     == NewExpense
              match == {b \in budgets : b.user_id = e.user_id
                                        /\ b.category = e.category
                                        /\ b.currency = e.currency}
          IN  /\ e \notin expenses
              /\ expenses' = expenses \cup {e}
              /\ Cardinality(match) <= 1
              /\ budgets' = {IF b \in match
                             THEN [b EXCEPT !.current_spent = b.current_spent + e.amount]
                             ELSE b : b \in budgets}
              /\ match = {} => (budgets' = budgets /\ last'.msgs = {"Recorded"})]_vars

\* an expense moved user 1's budget and left user 2's budget of the same
\* category and currency alone
C8_Witness ==
    /\ last.fn = "save_expense"
    /\ "Recorded" \in last.msgs
    /\ \E b, c \in budgets :
          /\ b.user_id = 1 /\ c.user_id = 2
          /\ b.category = c.category /\ b.currency = c.currency
          /\ b.current_spent # 0
          /\ c.current_spent = 0

\* C9: current_spent of a budget never decreases from one state to the
\* next.
C9_SpentNeverDecreases ==
    [][\A b \in budgets : \A c \in budgets' :
          c.id = b.id => c.current_spent >= b.current_spent]_vars

-----------------------------------------------------------------------------
(* Properties of the paginated keyboards, checked under SpecPaged.         *)

Rendered ==
    last.fn \in {"generate_paginated_keyboard", "generate_payment_keyboard",
                 "navigate_menu"}

\* C10: with page size 5 the keyboard for page p shows exactly
\* items[5p : 5p+5] in list order, one per row, then a Previous button iff
\* p > 0 and a Next button iff (p+1)*5 < len(items).
C10_PageSlice ==
    Rendered =>
        LET n       == Len(items)
            first   == ITEMS_PER_PAGE * page
            count   == IF n <= first THEN 0
                       ELSE IF n - first < ITEMS_PER_PAGE THEN n - first
                       ELSE ITEMS_PER_PAGE
            hasPrev == page > 0
            hasNext == (page + 1) * ITEMS_PER_PAGE < n
            nav     == (IF hasPrev
                        THEN << [pre |-> <<"nav">> \o prefix, arg |-> page - 1] >>
                        ELSE << >>)
                       \o
                       (IF hasNext
                        THEN << [pre |-> <<"nav">> \o prefix, arg |-> page + 1] >>
                        ELSE << >>)
        IN  /\ Len(keyboard) = count + (IF hasPrev \/ hasNext THEN 1 ELSE 0)
            /\ \A i \in 1..count :
                  keyboard[i] = << [pre |-> prefix, arg |-> items[first + i].id] >>
            /\ (hasPrev \/ hasNext) => keyboard[count + 1] = nav

\* twelve items, page 2: items 10 and 11, then Previous alone
C10_Witness ==
    /\ Rendered
    /\ Len(items) = 12
    /\ page = 2
    /\ Len(keyboard) = 3
    /\ keyboard[1] = << [pre |-> prefix, arg |-> items[11].id] >>
    /\ keyboard[2] = << [pre |-> prefix, arg |-> items[12].id] >>
    /\ Len(keyboard[3]) = 1

-----------------------------------------------------------------------------
(* Properties of the assets, checked under SpecAsset.                      *)

SameTriple(a, user_id, name, currency) ==
    a.user_id = user_id /\ a.name = name /\ a.currency = currency

\* the step is a call of handler fn by user u
Called(u, fn) == last'.user = u /\ last'.fn = fn

\* C17: in every reachable state no two assets rows have the same owner,
\* name and currency; and when save_asset completes for a triple that the
\* table already holds, the table keeps its rows, and that row, and no
\* other, takes the entered amount: nothing is inserted.
C17_OneRowPerTriple ==
    /\ [](\A a, b \in assets :
            SameTriple(a, b.user_id, b.name, b.currency) => a = b)
    /\ [][\A u \in ALLOWED_USER_IDS :
            (/\ Called(u, "save_asset")
             /\ AssetKeys \subseteq DOMAIN user_data[u]
             /\ \E r \in assets : SameTriple(r, u, user_data[u]["asset_name"],
                                             user_data[u]["asset_currency"]))
            => \E r \in assets :
                 /\ SameTriple(r, u, user_data[u]["asset_name"],
                               user_data[u]["asset_currency"])
                 /\ \E n \in assets' :
                      /\ n.id = r.id
                      /\ n.amount = user_data[u]["asset_amount"]
                      /\ SameTriple(n, r.user_id, r.name, r.currency)
                      /\ n.asset_type = r.asset_type
                      /\ assets' \ {n} = assets \ {r}
                 /\ seq' = seq]_vars

\* "a"/USD was added with another amount and then with 250: one row of the
\* owner, holding 250, written twice
C17_Witness ==
    /\ last.fn = "save_asset" /\ last.msgs = {"Updated"}
    /\ \E r \in assets :
         /\ r.id = last.id /\ r.user_id = last.user
         /\ r.amount = 250 /\ r.updated_at = 2
         /\ \A a \in assets : a.user_id = r.user_id => a = r
    /\ \E a \in assets : a.user_id # last.user

\* the signed number a reply "+d", "d" or "-d" with d > 0 stands for
SignedDelta(t) ==
    CASE t = "+50"   -> 50
      [] t = "50"    -> 50
      [] t = " +50 " -> 50
      [] t = "-1000" -> 0 - 1000

PositiveDeltaTexts == {"+50", "50", " +50 ", "-1000"}

\* the asset the update-asset dialogue of u has selected, or NoRow
SelectedAsset(u) ==
    IF Has(user_data[u], "selected_asset_id")
    THEN get_asset_by_id(user_data[u]["selected_asset_id"])
    ELSE NoRow

\* C18: when process_asset_update handles "+d" or "d" (d > 0) for a selected
\* asset that exists, the asset's amount becomes old + d, and on "-d" it
\* becomes old - d, below zero included; every other assets row, every
\* other table and the id counters are unchanged.
C18_UpdateIsAdditive ==
    [][\A u \in ALLOWED_USER_IDS : \A t \in PositiveDeltaTexts :
         (process_asset_update(u, t) /\ SelectedAsset(u) # NoRow)
         => \E n \in assets' :
              /\ n.id = SelectedAsset(u).id
              /\ n.amount = SelectedAsset(u).amount + SignedDelta(t)
              /\ assets' \ {n} = assets \ {SelectedAsset(u)}
              /\ UNCHANGED <<otherTables, seq>>]_vars

\* 250, then "+50" (300), then "-1000": the asset holds -700 after its
\* third write, and the other user's asset is as it was
C18_Witness ==
    /\ last.fn = "process_asset_update" /\ last.msgs = {"Updated"}
    /\ \E r \in assets :
         r.id = last.id /\ r.amount = 0 - 700 /\ r.updated_at = 3
    /\ \E a \in assets : a.user_id # last.user /\ a.amount = 100

\* replies whose magnitude is zero or parses as a number <= 0
NonPositiveDeltaTexts == {"0", "-0", "--5", "+-5"}

\* C19: when process_asset_update handles a reply whose magnitude is not
\* positive, no assets row changes (amount and updated_at included), the
\* user is told the amount must be positive, the dialogue stays in
\* UPDATE_ASSET_AMOUNT and user_data keeps the selected asset.
C19_NonPositiveDeltaRejected ==
    [][\A u \in ALLOWED_USER_IDS : \A t \in NonPositiveDeltaTexts :
         (process_asset_update(u, t) /\ Has(user_data[u], "selected_asset_id"))
         => /\ UNCHANGED dbVars
            /\ last'.msgs = {"MustBePositive"}
            /\ conv'[u]["update_asset"] = "UPDATE_ASSET_AMOUNT"
            /\ conv' = conv
            /\ user_data' = user_data]_vars

\* a non-positive reply was just refused for an asset that is still there
C19_Witness ==
    /\ last.fn = "process_asset_update" /\ last.msgs = {"MustBePositive"}
    /\ conv[last.user]["update_asset"] = "UPDATE_ASSET_AMOUNT"
    /\ SelectedAsset(last.user) # NoRow
    /\ SelectedAsset(last.user).id = last.id

-----------------------------------------------------------------------------
(* Properties of page navigation, checked under SpecNav.                   *)

NavHandlers ==
    {"navigate_menu", "navigate_asset_menu", "navigate_delete_asset_menu"}

\* C11: a step that handles a page event leaves every dialogue's state,
\* user_data and every table unchanged; and when the step before it
\* handled the same event (same prefix, same page) for the same user, the
\* keyboard it renders is the keyboard already rendered.
C11_NavigationChangesNothing ==
    [][\A u \in ALLOWED_USER_IDS :
         (last'.user = u /\ last'.fn \in NavHandlers)
         => /\ conv' = conv
            /\ user_data' = user_data
            /\ UNCHANGED dbVars
            /\ (last.user = u /\ last.fn \in NavHandlers
                    /\ prefix' = prefix /\ page' = page)
               => keyboard' = keyboard]_vars

\* the second page of a list was rendered while the update-asset dialogue
\* holds a selected asset in user_data and another dialogue is selecting
C11_Witness ==
    /\ last.fn \in NavHandlers
    /\ page = 1 /\ Len(keyboard) = 2
    /\ Has(user_data[last.user], "selected_asset_id")
    /\ conv[last.user]["update_asset"] = "UPDATE_ASSET_AMOUNT"
    /\ conv[last.user]["delete"] = "DELETE_GOAL_CONFIRM"

\* the list a navigation handler reads
NavList(u, fn) ==
    IF fn = "navigate_menu"
    THEN get_user_goals_and_debts(u) ELSE get_user_assets(u)

\* the ids of the item buttons of a keyboard rendered with prefix pre
ShownIds(kb, pre) == {b.arg : b \in {x \in ButtonsOf(kb) : x.pre = pre}}

\* the ids of page pg of a list
PageIds(list, pg) ==
    {list[i].id : i \in {j \in 1..Len(list) :
                           /\ j > pg * ITEMS_PER_PAGE
                           /\ j <= (pg + 1) * ITEMS_PER_PAGE}}

\* the page index is below zero, or at or beyond the end of a list of n rows
OutOfRange(pg, n) == pg < 0 \/ pg * ITEMS_PER_PAGE >= n

\* the nearest page the list has
Clamped(pg, n) ==
    IF pg < 0 \/ n = 0 THEN 0 ELSE (n - 1) \div ITEMS_PER_PAGE

-----------------------------------------------------------------------------
(* Properties of the selection flows, checked under SpecSelect.            *)

\* the entry handler of each selection flow, with its dialogue
SelectionEntries ==
    { <<"add_start", "add">>, <<"delete_start", "delete">>,
      <<"progress_start", "progress">>,
      <<"add_payment_start", "add_payment">>,
      <<"payment_progress_start", "payment_progress">>,
      <<"delete_payment_start", "delete_payment">>,
      <<"update_asset_start", "update_asset">>,
      <<"delete_asset_start", "delete_asset">> }

\* the rows of u that the flow of dialogue c lists
BackingRows(u, c) ==
    IF c \in {"add", "delete", "progress"}
    THEN {g \in goals : g.user_id = u}
    ELSE IF c \in {"add_payment", "payment_progress", "delete_payment"}
    THEN {p \in payments : p.user_id = u}
    ELSE {a \in assets : a.user_id = u}

\* C12: when a selection flow is entered while its owner has no row to
\* list, the dialogue is at END after the step, the one message sent is the
\* nothing-to-select message, no button is shown, and no table, id counter
\* or user_data changes.
C12_EmptyListEndsFlow ==
    [][\A u \in ALLOWED_USER_IDS : \A e \in SelectionEntries :
         (Called(u, e[1]) /\ BackingRows(u, e[2]) = {})
         => /\ conv'[u][e[2]] = END
            /\ last'.msgs = {"NothingToSelect"}
            /\ buttons' = buttons
            /\ user_data' = user_data
            /\ UNCHANGED dbVars]_vars

\* update asset was entered after the assets were erased: the buttons of
\* the old keyboard are still with the user, no dialogue is open
C12_Witness ==
    /\ last.fn = "update_asset_start" /\ last.msgs = {"NothingToSelect"}
    /\ assets = {}
    /\ Button(<<"update", "asset">>, 1) \in buttons[last.user]
    /\ \A c \in Convs : conv[last.user][c] = END

\* the handler of a selection event of each flow, with its dialogue
SelectionHandlers ==
    { <<"select_goal_for_adding", "add">>, <<"confirm_delete", "delete">>,
      <<"show_goal_progress", "progress">>,
      <<"select_payment_for_adding", "add_payment">>,
      <<"show_payment_progress", "payment_progress">>,
      <<"confirm_payment_delete", "delete_payment">>,
      <<"select_asset_for_update", "update_asset">>,
      <<"confirm_asset_delete", "delete_asset">> }

\* the table the flow of dialogue c selects from
BackingTable(c) ==
    IF c \in {"add", "delete", "progress"} THEN goals
    ELSE IF c \in {"add_payment", "payment_progress", "delete_payment"}
    THEN payments
    ELSE assets

\* the step is a selection event of u, handled by h[1], whose id has no row
StaleSelection(u, h) ==
    /\ Called(u, h[1])
    /\ RowById(BackingTable(h[2]), last'.id) = NoRow

\* C14: when a selection handler is given an id that has no row, it
\* answers not-found, its dialogue is at END after the step, user_data of
\* the user is empty after the step, and no table or id counter changes.
C14_StaleSelectionNotFound ==
    [][\A u \in ALLOWED_USER_IDS : \A h \in SelectionHandlers :
         StaleSelection(u, h)
         => /\ last'.msgs = {"NotFound"}
            /\ conv'[u][h[2]] = END
            /\ user_data'[u] = EmptyDict
            /\ UNCHANGED dbVars]_vars

\* the same without the statement about user_data
C14_StaleSelectionEndsFlow ==
    [][\A u \in ALLOWED_USER_IDS : \A h \in SelectionHandlers :
         StaleSelection(u, h)
         => /\ last'.msgs = {"NotFound"}
            /\ conv'[u][h[2]] = END
            /\ UNCHANGED dbVars]_vars

-----------------------------------------------------------------------------
(* Properties of names, checked under SpecNames and SpecOwners.            *)

\* the handler that completes each creating dialogue, its dialogue, the
\* user_data key of the name and the keys it reads
CreatingHandlers ==
    { [fn |-> "get_goal_currency_and_save", c |-> "new_goal",
       name_key |-> "goal_name", keys |-> {"goal_name", "goal_amount"}],
      [fn |-> "get_debt_currency_and_save", c |-> "new_debt",
       name_key |-> "debt_name", keys |-> {"debt_name", "debt_amount"}],
      [fn |-> "save_payment", c |-> "new_payment",
       name_key |-> "payment_name", keys |-> PaymentKeys] }

\* the table the creating dialogue c inserts into
CreatedTable(c) == IF c = "new_payment" THEN payments ELSE goals

\* the step completes the creating dialogue of h for u, all fields collected
Completes(u, h) ==
    /\ Called(u, h.fn)
    /\ h.keys \subseteq DOMAIN user_data[u]

\* C15: when a new goal, new debt or new payment dialogue is completed
\* with a name that a row of the same owner in its table already has, the
\* user is told of the conflict, no table and no id counter changes (no
\* row inserted, the old row as it was), the dialogue is at END and
\* user_data of the user is empty.
C15_SameOwnerNameRejected ==
    [][\A u \in ALLOWED_USER_IDS : \A h \in CreatingHandlers :
         (/\ Completes(u, h)
          /\ \E r \in CreatedTable(h.c) :
                r.user_id = u /\ r.name = user_data[u][h.name_key])
         => /\ last'.msgs = {"Conflict"}
            /\ UNCHANGED dbVars
            /\ conv'[u][h.c] = END
            /\ user_data'[u] = EmptyDict]_vars

\* a second payment of the same name was refused: the owner's one payment
\* is there, the dialogue is over and user_data is empty
C15_Witness ==
    /\ last.fn = "save_payment" /\ last.msgs = {"Conflict"}
    /\ Cardinality(payments) = 1
    /\ \A p \in payments : p.user_id = last.user
    /\ conv[last.user]["new_payment"] = END
    /\ user_data[last.user] = EmptyDict

\* C16: a creating dialogue completed with a name that a row of the same
\* owner already has is refused and changes no table; completed with a
\* name that no row of the same owner has, whatever other owners' rows are
\* named, it inserts one row of that owner and name.
C16_UniquePerOwner ==
    [][\A u \in ALLOWED_USER_IDS : \A h \in CreatingHandlers :
         Completes(u, h)
         => IF \E r \in CreatedTable(h.c) :
                   r.user_id = u /\ r.name = user_data[u][h.name_key]
            THEN last'.msgs = {"Conflict"} /\ UNCHANGED dbVars
            ELSE /\ last'.msgs = {"Saved"}
                 /\ \E n \in CreatedTable(h.c)' :
                      /\ n.user_id = u
                      /\ n.name = user_data[u][h.name_key]
                      /\ CreatedTable(h.c)' = CreatedTable(h.c) \cup {n}
                      /\ n \notin CreatedTable(h.c)]_vars

\* the same with the constraint the tables have: the name is compared with
\* the rows of every owner
C16_UniqueAcrossOwners ==
    [][\A u \in ALLOWED_USER_IDS : \A h \in CreatingHandlers :
         Completes(u, h)
         => IF \E r \in CreatedTable(h.c) : r.name = user_data[u][h.name_key]
            THEN last'.msgs = {"Conflict"} /\ UNCHANGED dbVars
            ELSE /\ last'.msgs = {"Saved"}
                 /\ \E n \in CreatedTable(h.c)' :
                      /\ n.user_id = u
                      /\ n.name = user_data[u][h.name_key]
                      /\ CreatedTable(h.c)' = CreatedTable(h.c) \cup {n}
                      /\ n \notin CreatedTable(h.c)]_vars

-----------------------------------------------------------------------------
(* Replies that are not numbers, in the amount states of every dialogue.   *)

\* replies that float() refuses, with or without a sign before them
NotNumberTexts == {"x", "+x"}

\* the step is the handler of an amount state, given the reply t by u
AmountReply(u, t) ==
    \/ get_goal_amount(u, t)
    \/ get_debt_amount(u, t)
    \/ get_amount_and_save(u, t)
    \/ get_expense_amount(u, t)
    \/ get_budget_amount(u, t)
    \/ get_payment_target(u, t)
    \/ get_payment_amount(u, t)
    \/ get_payment_amount_and_save(u, t)
    \/ get_asset_amount(u, t)
    \/ process_asset_update(u, t)

\* C20: when the handler of an amount state is given a reply that is not a
\* number, the user is told so, every dialogue keeps its state, user_data
\* keeps every field, and no table or id counter changes.
C20_NotANumberReprompts ==
    [][\A u \in ALLOWED_USER_IDS : \A t \in NotNumberTexts :
         AmountReply(u, t)
         => /\ last'.msgs = {"NotANumber"}
            /\ conv' = conv
            /\ user_data' = user_data
            /\ UNCHANGED dbVars]_vars

\* the same for the replies given while the update-asset dialogue, when it
\* is the one replied to, still has its selected asset in user_data
C20_NotANumberRepromptsSelected ==
    [][\A u \in ALLOWED_USER_IDS : \A t \in NotNumberTexts :
         (/\ AmountReply(u, t)
          /\ process_asset_update(u, t) => Has(user_data[u], "selected_asset_id"))
         => /\ last'.msgs = {"NotANumber"}
            /\ conv' = conv
            /\ user_data' = user_data
            /\ UNCHANGED dbVars]_vars

-----------------------------------------------------------------------------
(* Properties of the cancel command, checked under SpecCancel.             *)

\* the dialogues of user u that are not at END
OpenConvs(u) == {c \in Convs : conv[u][c] # END}

C22_NoRecordFromCancel ==
    \A r \in goals \cup payments : r.name # "cancel"

\* where the state lists the '^cancel$' handler the plain text does abort:
\* no payment is stored under the name "cancel"
C22_NoPaymentFromCancel ==
    \A r \in payments : r.name # "cancel"

-----------------------------------------------------------------------------
(* Properties of failures inside a dialogue.                               *)

\* the amount step of each selection-based flow: its dialogue, its handler
\* and the user_data key of the selection
AmountSteps ==
    { [c |-> "add", fn |-> "get_amount_and_save", key |-> "selected_goal_id"],
      [c |-> "add_payment", fn |-> "get_payment_amount_and_save",
       key |-> "selected_payment_id"],
      [c |-> "update_asset", fn |-> "process_asset_update",
       key |-> "selected_asset_id"] }

\* the amount step of h ran for u with the selection gone from user_data
LostSelection(u, h) ==
    /\ Called(u, h.fn)
    /\ ~ Has(user_data[u], h.key)

\* what the claim asks of such a step
EndsAsLost(u, h) ==
    /\ last'.msgs = {"LostContext"}
    /\ conv'[u][h.c] = END
    /\ user_data'[u] = EmptyDict
    /\ UNCHANGED dbVars

\* C23: when the amount step of add, add payment or update asset runs and
\* the selected id is not in user_data, the user is told the context was
\* lost, the dialogue is at END, user_data of the user is empty and no table
\* and no id counter changes.
C23_LostSelectionEndsFlow ==
    [][\A u \in ALLOWED_USER_IDS : \A h \in AmountSteps :
         LostSelection(u, h) => EndsAsLost(u, h)]_vars

\* the same for the replies that are numbers
C23_LostSelectionEndsFlowOnNumbers ==
    [][\A u \in ALLOWED_USER_IDS : \A h \in AmountSteps :
         (/\ LostSelection(u, h)
          /\ \E t \in NumberTexts :
                \/ get_amount_and_save(u, t)
                \/ get_payment_amount_and_save(u, t))
         => EndsAsLost(u, h)]_vars

\* the dialogue whose states mapping holds the text handler fn
DialogueOf(fn) ==
    CHOOSE c \in Convs : \E st \in StatesOf(c) : TextStateFn(st) = fn

\* the step of u failed with an error the handler does not expect: one
\* that left the handler ("Bug", answered by error_handler) or one its
\* except Exception clause caught ("Unexpected")
FailedUnexpectedly(u) ==
    /\ last'.user = u
    /\ last'.msgs \in {{"Bug"}, {"Unexpected"}}

\* C24: whenever a dialogue step fails with an unexpected internal error,
\* the dialogue of that step is at END and user_data of the user is empty
\* after the step.
C24_UnexpectedErrorEndsFlow ==
    [][\A u \in ALLOWED_USER_IDS :
         FailedUnexpectedly(u) =>
            /\ conv'[u][DialogueOf(last'.fn)] = END
            /\ user_data'[u] = EmptyDict]_vars

\* the same for the errors caught inside the handler
C24_CaughtErrorEndsFlow ==
    [][\A u \in ALLOWED_USER_IDS :
         FailedUnexpectedly(u) /\ last'.msgs = {"Unexpected"} =>
            /\ conv'[u][DialogueOf(last'.fn)] = END
            /\ user_data'[u] = EmptyDict]_vars

\* the terminal write of the creating dialogue of h ran for u and failed
\* on a field missing from user_data, which is no name conflict
TerminalWriteFails(u, h) ==
    /\ Called(u, h.fn)
    /\ ~ (h.keys \subseteq DOMAIN user_data[u])

\* C25: when the terminal write of a new goal, new debt or new payment
\* dialogue fails unexpectedly, user_data of the user is empty and the
\* dialogue is at END after the step, and the user was sent a failure
\* message.
C25_TerminalFailureClearsAndReports ==
    [][\A u \in ALLOWED_USER_IDS : \A h \in CreatingHandlers :
         TerminalWriteFails(u, h) =>
            /\ user_data'[u] = EmptyDict
            /\ conv'[u][h.c] = END
            /\ last'.msgs \in {{"Bug"}, {"Unexpected"}}]_vars

\* the same without the message
C25_TerminalFailureClears ==
    [][\A u \in ALLOWED_USER_IDS : \A h \in CreatingHandlers :
         TerminalWriteFails(u, h) =>
            /\ user_data'[u] = EmptyDict
            /\ conv'[u][h.c] = END]_vars

-----------------------------------------------------------------------------
(* Properties of the two ledgers, checked under SpecLedger.                *)

Ids(rows) == {r.id : r \in rows}

\* C26: every savings row references a goals row and every payment_history
\* row references a payments row, in every reachable state; a step that
\* removes a goal or payment removes every ledger row that references it; and
\* a step removes a ledger row only when it removes the row it references.
C26_LedgerFollowsParent ==
    /\ [](/\ \A sv \in savings : sv.goal_id \in Ids(goals)
          /\ \A h \in payment_history : h.payment_id \in Ids(payments))
    /\ [][/\ \A g \in goals : g.id \notin Ids(goals') =>
                 \A sv \in savings' : sv.goal_id # g.id
          /\ \A p \in payments : p.id \notin Ids(payments') =>
                 \A h \in payment_history' : h.payment_id # p.id
          /\ \A sv \in savings : sv.id \notin Ids(savings') =>
                 sv.goal_id \notin Ids(goals')
          /\ \A h \in payment_history : h.id \notin Ids(payment_history') =>
                 h.payment_id \notin Ids(payments')]_vars

\* goal 1, holding a savings row, was deleted by a click: its row is gone,
\* the savings row of goal 2 is still there
C26_Witness ==
    /\ last.fn = "confirm_delete" /\ last.msgs = {"Deleted"} /\ last.id = 1
    /\ seq.savings = 2
    /\ \E sv \in savings : savings = {sv} /\ sv.goal_id = 2

-----------------------------------------------------------------------------
(* Properties of made-up callback data, checked under SpecGarbled.         *)

\* user u's step handled a page event whose page is no integer
HandlesGarbledPage(u) ==
    \E b \in GarbledEvents :
        \/ navigate_menu(u, b)
        \/ navigate_asset_menu(u, b)
        \/ navigate_delete_asset_menu(u, b)

\* user u's step handled a selection event whose item is no integer
HandlesGarbledSelection(u) ==
    \E b \in GarbledEvents :
        \/ select_goal_for_adding(u, b)
        \/ confirm_delete(u, b)
        \/ show_goal_progress(u, b)
        \/ select_payment_for_adding(u, b)
        \/ show_payment_progress(u, b)
        \/ confirm_payment_delete(u, b)
        \/ select_asset_for_update(u, b)
        \/ confirm_asset_delete(u, b)

\* the handler caught the failure itself and asked the user to try again;
\* no dialogue changed state, user_data and the store are as they were
FailsClosed ==
    /\ last'.msgs = {"TryAgain"}
    /\ UNCHANGED <<dbVars, conv, user_data>>

\* C27: a page event whose page part is no integer and a selection event
\* whose item part is no integer are answered by the handler with a "try
\* again" message, without an exception leaving the handler, and leave the
\* dialogue states, user_data and the store unchanged.
C27_MalformedFailsClosed ==
    [][\A u \in ALLOWED_USER_IDS :
         HandlesGarbledPage(u) \/ HandlesGarbledSelection(u) => FailsClosed]_vars

\* the same for the page events alone
C27_MalformedPageFailsClosed ==
    [][\A u \in ALLOWED_USER_IDS : HandlesGarbledPage(u) => FailsClosed]_vars

\* a malformed selection event changes no dialogue state, no user_data and
\* nothing in the store
C27_MalformedSelectionChangesNothing ==
    [][\A u \in ALLOWED_USER_IDS :
         HandlesGarbledSelection(u) => UNCHANGED <<dbVars, conv, user_data>>]_vars


-----------------------------------------------------------------------------
(* Which flow consumes a click.                                            *)

ForeignDeletePrefixes == {<<"delete", "asset">>, <<"delete", "payment">>}

\* the goal-delete dialogue and the asset-delete or payment-delete dialogue
\* of user u both await a selection
BothAwaitDelete(u, pre) ==
    /\ conv[u]["delete"] = "DELETE_GOAL_CONFIRM"
    /\ pre = <<"delete", "asset">> =>
          conv[u]["delete_asset"] = "DELETE_ASSET_SELECT"
    /\ pre = <<"delete", "payment">> =>
          conv[u]["delete_payment"] = "DELETE_PAYMENT_SELECT"

\* the step is the handling of a click of u on the shown button b
ClickHandled(u, b) ==
    \/ confirm_delete(u, b)
    \/ confirm_asset_delete(u, b)
    \/ confirm_payment_delete(u, b)

\* C28: with the goal-delete dialogue and the asset-delete (or
\* payment-delete) dialogue both awaiting a selection, a click on a button
\* of the asset (or payment) delete keyboard is handled by
\* confirm_asset_delete (or confirm_payment_delete) and deletes no goal or
\* debt.
C28_ClickStaysInItsFlow ==
    [][\A b \in buttons[Talker] :
          (/\ b.pre \in ForeignDeletePrefixes
           /\ BothAwaitDelete(Talker, b.pre)
           /\ ClickHandled(Talker, b))
          => /\ goals' = goals
             /\ last'.fn \in {"confirm_asset_delete", "confirm_payment_delete"}]_vars

\* C28, the goal-delete dialogue not awaiting: a click on a button of the
\* asset or payment delete keyboard is handled by its own flow and deletes
\* no goal or debt.
C28_ClickStaysInItsFlowAlone ==
    [][\A b \in buttons[Talker] :
          (/\ b.pre \in ForeignDeletePrefixes
           /\ conv[Talker]["delete"] = END
           /\ ClickHandled(Talker, b))
          => /\ goals' = goals
             /\ last'.fn \in {"confirm_asset_delete", "confirm_payment_delete"}]_vars

\* C28, reachability: both delete dialogues await a selection and the asset
\* keyboard is on screen.
C28_BothAwaiting ==
    \E b \in buttons[Talker] :
       /\ b.pre = <<"delete", "asset">>
       /\ BothAwaitDelete(Talker, b.pre)
       /\ conv[Talker]["delete_asset"] = "DELETE_ASSET_SELECT"


-----------------------------------------------------------------------------
(* Target amounts of stored goals, debts and payments.                     *)

\* C29: every stored goal, debt and payment has target_amount > 0.
C29_TargetAmountPositive ==
    /\ \A g \in goals : g.target_amount > 0
    /\ \A p \in payments : p.target_amount > 0

\* C29, the amount prompt itself: a reply that is a number of any sign is
\* taken as the target amount and the dialogue moves on to the currency.
C29_AnyNumberIsTaken ==
    [][\A t \in SignedTargetTexts :
          /\ get_goal_amount(Talker, t)
                => /\ user_data'[Talker]["goal_amount"] = float(t)
                   /\ conv'[Talker]["new_goal"] = "GOAL_CURRENCY"
          /\ get_payment_target(Talker, t)
                => /\ user_data'[Talker]["payment_target"] = float(t)
                   /\ conv'[Talker]["new_payment"] = "PAYMENT_CURRENCY"]_vars

\* C29, reachability: a goal, a debt and a payment with a positive target
\* are stored.
C29_PositiveStored ==
    /\ \E g \in goals : g.type = "goal" /\ g.target_amount > 0
    /\ \E g \in goals : g.type = "debt" /\ g.target_amount > 0
    /\ \E p \in payments : p.target_amount > 0


-----------------------------------------------------------------------------
(* The running total of a goal or debt.                                    *)

\* C30: the current_amount of a goal or debt never decreases.
C30_CurrentAmountNeverDecreases ==
    [][\A g \in goals : \A h \in goals' :
          h.id = g.id => h.current_amount >= g.current_amount]_vars

\* C30, the start: a goal or debt enters the store with current_amount 0.
C30_CurrentAmountStartsAtZero ==
    [][\A h \in goals' : h.id \notin Ids(goals) => h.current_amount = 0]_vars

\* C30, the step: a committed contribution moves current_amount by exactly
\* the number in the reply, whatever its sign.
C30_MovesByReply ==
    [][\A t \in AmountTexts :
          (/\ get_amount_and_save(Talker, t)
           /\ "Recorded" \in last'.msgs)
          => \E g \in goals : \E h \in goals' :
                /\ h.id = g.id /\ g.id = last'.id
                /\ h.current_amount = g.current_amount + float(t)]_vars

\* C30, reachability: a contribution has raised a goal's current_amount.
C30_Raised ==
    /\ last.fn = "get_amount_and_save"
    /\ \E g \in goals : g.id = last.id /\ g.current_amount > 0


-----------------------------------------------------------------------------
(* The transactions of a terminal step.                                    *)

\* the budgets of the owner, category and currency of the expense e
BudgetsOf(rows, e) == MatchingBudgets(rows, e.user_id, e.category, e.currency)

\* C31: the expense insert and the budget increment of a terminal step are
\* one transaction: a step that adds an expense adds its amount to the
\* current_spent of every budget of the expense's owner, category and
\* currency.
C31_ExpenseAndBudgetTogether ==
    [][\A e \in expenses' \ expenses : \A b \in BudgetsOf(budgets, e) :
          \E c \in budgets' :
             c.id = b.id /\ c.current_spent = b.current_spent + e.amount]_vars

\* C31, the alerts: the budget alert sent by a step that reports an expense
\* as recorded is the one check_budget_alerts gives on the table after the
\* step, and user_data is empty after it.
C31_AlertsOnStateAfterCommit ==
    [][\A e \in expenses' \ expenses :
          "Recorded" \in last'.msgs =>
             /\ last'.msgs \ {"Recorded"} =
                   check_budget_alerts(budgets', e.user_id, e.category, e.currency)
             /\ user_data'[e.user_id] = EmptyDict]_vars

\* C31, reachability: an expense of a budgeted category is stored and the
\* budget's current_spent is still 0.
C31_ExpenseWithoutIncrement ==
    \E e \in expenses : \E b \in BudgetsOf(budgets, e) : b.current_spent = 0


-----------------------------------------------------------------------------
(* What erase all removes.                                                 *)

\* the rows of a table with a user_id column that belong to users other
\* than u
OfOthers(rows, u) == {r \in rows : r.user_id # u}

\* the rows of a ledger whose parent belongs to users other than u
LedgerOfOthers(rows, parents, key, u) ==
    {r \in rows : r[key] \in Ids(OfOthers(parents, u))}

\* C32: an erase all of user u leaves every goal, debt, ledger entry,
\* expense, asset, budget and payment of every other user as it was.
C32_EraseKeepsOtherOwners ==
    [][\A u \in ALLOWED_USER_IDS :
          erase_all(u) =>
             /\ OfOthers(goals', u) = OfOthers(goals, u)
             /\ OfOthers(payments', u) = OfOthers(payments, u)
             /\ OfOthers(expenses', u) = OfOthers(expenses, u)
             /\ OfOthers(budgets', u) = OfOthers(budgets, u)
             /\ OfOthers(assets', u) = OfOthers(assets, u)
             /\ LedgerOfOthers(savings', goals', "goal_id", u)
                   = LedgerOfOthers(savings, goals, "goal_id", u)
             /\ LedgerOfOthers(payment_history', payments', "payment_id", u)
                   = LedgerOfOthers(payment_history, payments, "payment_id", u)]_vars

\* C32, the user's own rows: after an erase all of user u no row of u is
\* left in any table.
C32_EraseRemovesOwn ==
    [][\A u \in ALLOWED_USER_IDS :
          erase_all(u) =>
             /\ goals' \ OfOthers(goals', u) = {}
             /\ payments' \ OfOthers(payments', u) = {}
             /\ expenses' \ OfOthers(expenses', u) = {}
             /\ budgets' \ OfOthers(budgets', u) = {}
             /\ assets' \ OfOthers(assets', u) = {}]_vars

\* C32, reachability: user 1 has erased everything while rows were stored.
C32_Erased ==
    /\ last.fn = "erase_all" /\ last.user = Talker
    /\ seq.expenses > 0


-----------------------------------------------------------------------------
(* Turning the pages of a selector.                                        *)

\* the dialogue that showed the keyboard of prefix pre awaits a selection
FlowAwaits(u, pre) ==
    \/ pre = <<"add", "to">> /\ conv[u]["add"] = "ADD_SAVINGS_GOAL"
    \/ pre = <<"add", "payment">> /\ conv[u]["add_payment"] = "ADD_PAYMENT_SELECT"

\* page pg of the list the selector of prefix pre was started for
PageOfFlow(u, pre, pg) ==
    IF pre = <<"add", "payment">>
    THEN generate_payment_keyboard(get_user_payments(u), pre, pg)
    ELSE generate_paginated_keyboard(get_user_goals_and_debts(u), pre, pg)

\* the step is what the application does with a click of u on the page
\* button b
PageClicked(u, b) == navigate_menu(u, b) \/ unhandled_callback(u, b)

\* C33: a click on the Next (or Previous) button of a selector whose
\* dialogue awaits a selection puts the page of that button, of the list
\* the selector was started for, on the keyboard, and its buttons can then
\* be clicked.
C33_NextClickTurnsPage ==
    [][\A b \in buttons[Talker] :
          (/\ b.pre # << >> /\ Head(b.pre) = "nav"
           /\ FlowAwaits(Talker, NavPrefix(b))
           /\ PageClicked(Talker, b))
          => /\ keyboard' = PageOfFlow(Talker, NavPrefix(b), b.arg)
             /\ ButtonsOf(keyboard') \subseteq buttons'[Talker]]_vars

\* C33, the goals and debts selector alone
C33_GoalNextClickTurnsPage ==
    [][\A b \in buttons[Talker] :
          (/\ b.pre = <<"nav", "add", "to">>
           /\ FlowAwaits(Talker, NavPrefix(b))
           /\ PageClicked(Talker, b))
          => /\ keyboard' = PageOfFlow(Talker, NavPrefix(b), b.arg)
             /\ ButtonsOf(keyboard') \subseteq buttons'[Talker]]_vars

\* the ids of the rows of a list that are not on its first page
BeyondFirstPage(list) ==
    {list[i].id : i \in (ITEMS_PER_PAGE + 1)..Len(list)}

\* C33, the payments left out: no button of a payment beyond the first page
\* is ever shown to the user.
C33_PaymentBeyondFirstPageNeverShown ==
    \A b \in buttons[Talker] :
       b.pre = <<"add", "payment">> =>
          b.arg \notin BeyondFirstPage(get_user_payments(Talker))

\* C33, reachability: a goal beyond the first page was selected after a
\* Next click.
C33_GoalBeyondFirstPageSelected ==
    /\ last.fn = "select_goal_for_adding"
    /\ Has(user_data[Talker], "selected_goal_id")
    /\ user_data[Talker]["selected_goal_id"]
          \in BeyondFirstPage(get_user_goals_and_debts(Talker))


-----------------------------------------------------------------------------
(* Which steps write.                                                      *)

allTables == <<goals, savings, payments, payment_history, expenses, budgets,
               assets>>

\* the final step of each writing dialogue, with the fields of user_data
\* its write takes, and erase all
WritingSteps ==
    { [fn |-> "get_goal_currency_and_save", keys |-> {"goal_name", "goal_amount"}],
      [fn |-> "get_debt_currency_and_save", keys |-> {"debt_name", "debt_amount"}],
      [fn |-> "get_amount_and_save", keys |-> {"selected_goal_id"}],
      [fn |-> "confirm_delete", keys |-> {}],
      [fn |-> "save_expense",
       keys |-> {"expense_amount", "expense_currency", "expense_category"}],
      [fn |-> "save_budget", keys |-> BudgetKeys],
      [fn |-> "save_payment", keys |-> PaymentKeys],
      [fn |-> "get_payment_amount_and_save", keys |-> {"selected_payment_id"}],
      [fn |-> "confirm_payment_delete", keys |-> {}],
      [fn |-> "save_asset", keys |-> AssetKeys],
      [fn |-> "process_asset_update", keys |-> {"selected_asset_id"}],
      [fn |-> "confirm_asset_delete", keys |-> {}],
      [fn |-> "erase_all", keys |-> {}] }

\* C34: a step that changes a table is the final step of a writing dialogue
\* (or erase all), run with every field of that dialogue in user_data; no
\* prompt reply, selector, page navigation or selection changes a table.
C34_OnlyFinalStepsWrite ==
    [][allTables' # allTables =>
          \E h \in WritingSteps :
             /\ last'.fn = h.fn
             /\ h.keys \subseteq DOMAIN user_data[last'.user]]_vars

\* C34, reachability: the add dialogue has written after its selection step.
C34_Witness ==
    /\ last.fn = "get_amount_and_save"
    /\ "Recorded" \in last.msgs
    /\ \E r \in savings : r.goal_id = last.id


-----------------------------------------------------------------------------
(* One budget per owner, category and currency.                            *)

\* the budgets table holds the row b with another amount and period, and
\* every other row as it was in rows
OnlyAmountAndPeriod(rows, b) ==
    \E c \in budgets' :
       /\ c.id = b.id
       /\ [c EXCEPT !.amount = b.amount, !.period = b.period] = b
       /\ budgets' \ {c} = rows \ {b}

\* C35: no two budgets rows have the same owner, category and currency; and
\* a set budget dialogue completed for the owner, category and currency of
\* an existing row changes the amount and period of that row and nothing
\* else: its current_spent and every other row stay.
C35_OneBudgetPerTriple ==
    /\ [](\A b, c \in budgets :
            (b.user_id = c.user_id /\ b.category = c.category
             /\ b.currency = c.currency) => b.id = c.id)
    /\ [][\A b \in budgets :
            (/\ last'.fn = "save_budget" /\ last'.user = b.user_id
             /\ BudgetKeys \subseteq DOMAIN user_data[b.user_id]
             /\ user_data[b.user_id]["budget_category"] = b.category
             /\ user_data[b.user_id]["budget_currency"] = b.currency)
            => /\ OnlyAmountAndPeriod(budgets, b)
               /\ \E c \in budgets' :
                     c.id = b.id
                     /\ c.amount = user_data[b.user_id]["budget_amount"]]_vars

\* C35, reachability: a budget with money spent against it was set again,
\* to another amount.
C35_Witness ==
    /\ last.fn = "save_budget" /\ "Updated" \in last.msgs
    /\ \E b \in budgets :
          b.id = last.id /\ b.current_spent # 0 /\ b.amount # 100


-----------------------------------------------------------------------------
(* The budget's running total against the expenses, checked under          *)
(* SpecFaults, where the budget is there before the first expense.         *)

\* the expenses of the owner, category and currency of the budget b
ExpensesOf(b) ==
    {e \in expenses : e.user_id = b.user_id /\ e.category = b.category
                      /\ e.currency = b.currency}

\* C36: the current_spent of every budget is the sum of the amounts of the
\* expenses of its owner, category and currency recorded since the budget
\* was created.
C36_SpentIsSumOfExpenses ==
    \A b \in budgets : b.current_spent = SumAmounts(ExpensesOf(b))

\* C36, without the failure: a save_expense whose UPDATE went through keeps
\* the equality.
C36_SaveKeepsSum ==
    [][\A t \in FaultReasonTexts :
          (save_expense(Talker, t) /\ C36_SpentIsSumOfExpenses)
          => \A b \in budgets' :
                b.current_spent =
                   SumAmounts({e \in expenses' :
                                 e.user_id = b.user_id /\ e.category = b.category
                                 /\ e.currency = b.currency})]_vars

\* C36, reachability: two expenses are stored and the budget's current_spent
\* is their sum.
C36_TwoExpensesSummed ==
    \E b \in budgets :
       /\ Cardinality(ExpensesOf(b)) = 2
       /\ b.current_spent = SumAmounts(ExpensesOf(b))


-----------------------------------------------------------------------------
(* user_data when no dialogue is open.                                     *)

\* C37: whenever every dialogue of a user is at END, user_data of that user
\* is empty.
C37_IdleMeansEmpty ==
    \A u \in ALLOWED_USER_IDS :
       OpenConvs(u) = {} => user_data[u] = EmptyDict

\* C37, reachability: with another dialogue having come in between, the
\* add dialogue ended on the lost selection and no dialogue is open.
C37_Witness ==
    /\ last.fn = "get_amount_and_save"
    /\ last.msgs = {"LostContext"}
    /\ OpenConvs(last.user) = {}
    /\ user_data[last.user] = EmptyDict


-----------------------------------------------------------------------------
(* What a step that reports a failed save has committed.                   *)

\* the step is the final step of the add or the add expense dialogue and
\* ended with the reply of its except Exception clause ("... Try again.")
SaveReportedFailed ==
    /\ last'.fn \in {"get_amount_and_save", "save_expense"}
    /\ "Unexpected" \in last'.msgs

\* C38: a final step of the add or add expense dialogue that tells the user
\* that saving failed has changed no table.
C38_FailedSaveCommitsNothing ==
    [][SaveReportedFailed => allTables' = allTables]_vars

\* C38, the add dialogue alone
C38_FailedContributionCommitsNothing ==
    [][(SaveReportedFailed /\ last'.fn = "get_amount_and_save")
          => allTables' = allTables]_vars

\* C38, reachability: an expense is stored whose save was reported as
\* failed.
C38_StoredAfterFailure ==
    /\ last.fn = "save_expense" /\ "Unexpected" \in last.msgs
    /\ \E e \in expenses : e.id = last.id


-----------------------------------------------------------------------------
(* Selection events and the records of other owners.                       *)

\* the handlers of the events that carry the id of a record, and the
\* amount steps that act on the id they stored
IdHandlers ==
    {"select_goal_for_adding", "get_amount_and_save", "confirm_delete",
     "select_payment_for_adding", "get_payment_amount_and_save",
     "confirm_payment_delete", "select_asset_for_update",
     "process_asset_update", "confirm_asset_delete"}

\* C39: a selection event handled for user u leaves every goal, debt,
\* payment and asset of every other user as it was.
C39_SelectionKeepsOtherOwners ==
    [][\A u \in ALLOWED_USER_IDS :
          (last'.user = u /\ last'.fn \in IdHandlers)
          => /\ OfOthers(goals', u) = OfOthers(goals, u)
             /\ OfOthers(payments', u) = OfOthers(payments, u)
             /\ OfOthers(assets', u) = OfOthers(assets, u)]_vars

\* C39, the keyboards: every button of a goals selector shown to user 1
\* carries the id of a goal of user 1, or of a row since deleted.
C39_SelectorsShowOwnGoals ==
    \A b \in buttons[Talker] :
       b.pre \in GoalPrefixes =>
          \/ get_goal_by_id(b.arg) = NoRow
          \/ get_goal_by_id(b.arg).user_id = Talker

\* C39, reachability: user 1 has deleted an own goal through the selector.
C39_OwnGoalDeleted ==
    /\ last.fn = "confirm_delete" /\ last.user = Talker
    /\ "Deleted" \in last.msgs
    /\ last.id = 2


-----------------------------------------------------------------------------
(* The expense report and the expense comparison.                          *)

ReportHandlers == {"expense_report", "expense_compare"}

\* C40: expense report and expense compare end with a report, never with
\* an error that left the handler, whatever expenses are recorded.
C40_ReportsComplete ==
    last.fn \in ReportHandlers => last.msgs \in {{"Report"}, {"Comparison"}}

\* C40, with nothing recorded: the commands end with a report.
C40_ReportsCompleteOnEmpty ==
    (last.fn \in ReportHandlers /\ OfOthers(expenses, last.user) = expenses)
       => last.msgs \in {{"Report"}, {"Comparison"}}

\* C40, reachability: the report was asked for with an expense recorded.
C40_AskedWithExpenses ==
    /\ last.fn \in ReportHandlers
    /\ \E e \in expenses : e.user_id = last.user

====
